---- MODULE Spec2Model ----
(***************************************************************************)
(* Verification model of sims_GCRCatSimInterface:                          *)
(*   - bin.src/instance_crawler.py   (catalog post-processing fixer)       *)
(*   - GalaxyTruthModule.py          (write_galaxies_to_truth pipeline)    *)
(*   - TruthCatalogLC.py             (SneSimulator, write_sprinkled_lc)    *)
(*   - InstanceCatalogWriter.py      (write_catalog and its pickup file)   *)
(* Every subsystem has its own specification (SpecFix, SpecExt, SpecOpen,  *)
(* SpecCat, SpecGal, SpecWR, SpecSN, SpecLC) over one set of variables; a  *)
(* specification leaves the variables of the other subsystems untouched.   *)
(***************************************************************************)
EXTENDS Integers, Sequences, FiniteSets, TLC

VARIABLES
    \* ---- instance_crawler.py ----
    in_disk,        \* rows of the disk catalog read by fix_disk_knots
    in_knots,       \* rows of the knots catalog read by fix_disk_knots
    filenames,      \* number of catalogs listed in args.input_cats
    task,           \* per catalog: state of its process_instance_catalog call
    main,           \* position of the __main__ script
    \* ---- GalaxyTruthModule.py ----
    gal_input,      \* rows the input cursor returns for _galaxy_query
    n_procs,        \* argument n_procs of write_galaxies_to_truth
    gal_pc,         \* position of write_galaxies_to_truth
    fetched,        \* number of rows the cursor has returned so far
    workers,        \* every mp.Process started so far, in start order
    p_list,         \* indices into workers: the processes of the current wave
    n_joined,       \* how many processes of p_list the join loop has joined
    mag_dict,       \* the Manager dict currently bound to mag_dict
    position_dict,  \* the dict currently bound to position_dict
    truth,          \* rows of the truth table, in insertion order
    row_ct,         \* row_ct of write_galaxies_to_truth
    iteration,      \* number of waves written inside the loop
    passed,         \* history: chunks whose result a write_results call received
    \* ---- write_results called on its own ----
    wr_md,          \* argument mag_dict
    wr_pd,          \* argument position_dict
    wr_t0,          \* the truth table before the call
    wr_res,         \* the truth table, row_ct and outcome after the call
    wr_pc,          \* "call" before, "done" after
    \* ---- SneSimulator.calculate_sn_magnitudes ----
    sn_n,           \* len(sn_truth_params)
    sn_bad,         \* index of a parameter string that makes its batch raise, or 0
    sn_pc,          \* position of calculate_sn_magnitudes
    sn_i_start,     \* i_start of the launch loop
    sn_p_list,      \* p_list: the processes started, with their batch and tag
    sn_n_joined,    \* how many processes of p_list the join loop has joined
    sn_out_dict,    \* out_dict, the Manager dict
    sn_mags,        \* mags, the matrix returned
    \* ---- write_sprinkled_lc ----
    lc_objects,     \* rows of zpoint in the parameter database
    lc_pointings,   \* the pointings, in the order htmid_dict iterates in
    lc_pc,          \* position of write_sprinkled_lc
    lc_htmid_dex,   \* htmid_dex of the loop over object_htmid
    lc_vt,          \* rows of variables_and_transients
    lc_light_curves,\* rows of light_curves
    lc_indexes,     \* the indexes of the output database
    lc_n_floats,    \* n_floats
    lc_epochs,      \* history: per trixel, the arrays handed to the simulators
    \* ---- apply_extinction_correction called on its own ----
    ext_tokens,     \* argument tokens
    ext_result,     \* the pair (corrected, tokens) returned
    ext_pc,         \* "call" before, "done" after
    \* ---- fopen ----
    fo_files,       \* the files on disk: path -> lines
    fo_pos,         \* number of lines read from fd
    fo_yielded,     \* the lines the generator has yielded
    fo_pc,          \* position of the with block that iterates the generator
    \* ---- InstanceCatalogWriter.write_catalog ----
    wc_config,      \* the writer: objects_to_skip, sprinkler, knots, sn_db_name
    wc_do_obj_type, \* self.do_obj_type
    wc_pickups,     \* per call: the lines of its pickup_file
    wc_call,        \* number of the current call of write_catalog
    wc_pc,          \* position of the current call
    wc_generated,   \* history: per call, the object types it generated
    wc_status,      \* per call: the lines written to its status file
    wc_args,        \* per call: whether status_dir is given, skip_tarball
    wc_written,     \* written_catalog_names of the current call
    wc_header,      \* per call: the includeobj lines of the phosim_cat file
    wc_procs,       \* per call: the subprocesses started and waited for
    wc_p,           \* the local variable p of the current call
    \* ---- write_galaxies_to_truth: its arguments and the files ----
    wg_input_db,    \* argument input_db: None or a path
    wg_output,      \* argument output: None or a path
    wg_clobber,     \* argument clobber
    wg_files0,      \* the files that exist when the function is called
    wg_files,       \* the files that exist now
    wg_pc           \* position in the function

fixVars == <<in_disk, in_knots, filenames, task, main>>

galVars == <<gal_input, n_procs, gal_pc, fetched, workers, p_list, n_joined,
             mag_dict, position_dict, truth, row_ct, iteration, passed>>

wrVars == <<wr_md, wr_pd, wr_t0, wr_res, wr_pc>>

snVars == <<sn_n, sn_bad, sn_pc, sn_i_start, sn_p_list, sn_n_joined, sn_out_dict, sn_mags>>

lcVars == <<lc_objects, lc_pointings, lc_pc, lc_htmid_dex, lc_vt, lc_light_curves,
            lc_indexes, lc_n_floats, lc_epochs>>

extVars == <<ext_tokens, ext_result, ext_pc>>

openVars == <<fo_files, fo_pos, fo_yielded, fo_pc>>

catVars == <<wc_config, wc_do_obj_type, wc_pickups, wc_call, wc_pc, wc_generated, wc_status,
             wc_args, wc_written, wc_header, wc_procs, wc_p>>

wgVars == <<wg_input_db, wg_output, wg_clobber, wg_files0, wg_files, wg_pc>>

vars == <<fixVars, galVars, wrVars, snVars, lcVars, extVars, openVars, catVars, wgVars>>

notFixVars == <<galVars, wrVars, snVars, lcVars, extVars, openVars, catVars,
               wgVars>>

notGalVars == <<fixVars, wrVars, snVars, lcVars, extVars, openVars, catVars,
               wgVars>>

notWRVars == <<fixVars, galVars, snVars, lcVars, extVars, openVars, catVars,
               wgVars>>

notSNVars == <<fixVars, galVars, wrVars, lcVars, extVars, openVars, catVars,
               wgVars>>

notLCVars == <<fixVars, galVars, wrVars, snVars, extVars, openVars, catVars,
               wgVars>>

notExtVars == <<fixVars, galVars, wrVars, snVars, lcVars, openVars, catVars,
               wgVars>>

notOpenVars == <<fixVars, galVars, wrVars, snVars, lcVars, extVars, catVars,
               wgVars>>

notCatVars == <<fixVars, galVars, wrVars, snVars, lcVars, extVars, openVars,
               wgVars>>

notWGVars == <<fixVars, galVars, wrVars, snVars, lcVars, extVars, openVars, catVars>>

\* the variables of a subsystem while another one runs
FixIdle ==
    /\ in_disk = <<>> /\ in_knots = <<>> /\ filenames = 0
    /\ task = <<>> /\ main = "idle"

GalIdle ==
    /\ gal_input = <<>> /\ n_procs = 0 /\ gal_pc = "idle" /\ fetched = 0
    /\ workers = <<>> /\ p_list = <<>> /\ n_joined = 0
    /\ mag_dict = <<>> /\ position_dict = <<>>
    /\ truth = <<>> /\ row_ct = 0 /\ iteration = 0 /\ passed = <<>>

WRIdle ==
    /\ wr_md = <<>> /\ wr_pd = <<>> /\ wr_t0 = <<>> /\ wr_res = <<>> /\ wr_pc = "idle"

SNIdle ==
    /\ sn_n = 0 /\ sn_bad = 0 /\ sn_pc = "idle" /\ sn_i_start = 0
    /\ sn_p_list = <<>> /\ sn_n_joined = 0 /\ sn_out_dict = <<>> /\ sn_mags = <<>>

LCIdle ==
    /\ lc_objects = <<>> /\ lc_pointings = <<>> /\ lc_pc = "idle" /\ lc_htmid_dex = 0
    /\ lc_vt = <<>> /\ lc_light_curves = <<>> /\ lc_indexes = {} /\ lc_n_floats = 0
    /\ lc_epochs = <<>>

ExtIdle ==
    /\ ext_tokens = <<>> /\ ext_result = <<>> /\ ext_pc = "idle"

OpenIdle ==
    /\ fo_files = <<>> /\ fo_pos = 0 /\ fo_yielded = <<>> /\ fo_pc = "idle"

CatIdle ==
    /\ wc_config = <<>> /\ wc_do_obj_type = <<>> /\ wc_pickups = <<>> /\ wc_call = 0
    /\ wc_pc = "idle" /\ wc_generated = <<>> /\ wc_status = <<>>
    /\ wc_args = <<>> /\ wc_written = <<>> /\ wc_header = <<>> /\ wc_procs = <<>>
    /\ wc_p = "unbound"

WGIdle ==
    /\ wg_input_db = "None" /\ wg_output = "None" /\ wg_clobber = FALSE
    /\ wg_files0 = {} /\ wg_files = {} /\ wg_pc = "idle"

(***************************************************************************)
(* Generic helpers                                                         *)
(***************************************************************************)
Range(s) == {s[i] : i \in 1..Len(s)}

Min(a, b) == IF a < b THEN a ELSE b

Max(a, b) == IF a > b THEN a ELSE b

\* the concatenation of the sequences of ss
RECURSIVE Concat(_)
Concat(ss) == IF ss = <<>> THEN <<>> ELSE Head(ss) \o Concat(Tail(ss))

\* a clip that has no upper end
Clip_NoUpper(x, lo, hi) == Max(lo, x)

\* numpy.clip(x, lo, hi)
Clip(x, lo, hi) == Max(lo, Min(x, hi))

(***************************************************************************)
(* instance_crawler.py                                                     *)
(*                                                                         *)
(* A catalog row is the list of its tokens; the model keeps the tokens the *)
(* fixer reads or writes: id (column 1), magnorm (column 4), size (column  *)
(* 13), ext (column 17), av and rv (columns 18, 19).  A_v and R_v are      *)
(* held in tenths, so the floor 0.1 is 1 and the value 1 is 10; the tokens *)
(* av and rv are texts: a sign, the digits before the point and the digits *)
(* after it.  A flux is held in units of 10^-15.                           *)
(***************************************************************************)
MaxDisk == 3
MaxKnots == 2
Hosts == {1, 2}
MaxCats == 1

RvFloor == 1
RvStaged == 10
AvMax == 10

DiskSubId == 107
KnotsSubId == 211

\* id >> 10
IdKey(id) == id \div 1024

\* the magnitude norm of an input row, as read from the file
RawMag(m) == [kind |-> "raw", md |-> m, mk |-> 0, size |-> 0]

\* lines 160-167: the disk magnitude norm after the flux split
DiskSplit(md, mk, size) == [kind |-> "disk_split", md |-> md.md, mk |-> mk.md, size |-> size]

\* lines 160-168: the knots magnitude norm after the flux split
KnotsSplit(md, mk, size) == [kind |-> "knots_split", md |-> md.md, mk |-> mk.md, size |-> size]

Abs(x) == IF x < 0 THEN -x ELSE x

\* the text of a number of tenths as a catalog holds it, e.g. "3.1", "-5.0"
Token(x) == [neg |-> x < 0, int |-> Abs(x) \div 10, frac |-> <<Abs(x) % 10>>]

\* float(token), in tenths
Float(tok) ==
    LET a == tok.int * 10 + (IF tok.frac = <<>> THEN 0 ELSE tok.frac[1])
    IN  IF tok.neg THEN -a ELSE a

\* ("%.9f" % x).rstrip('0'): the zeros after the last digit are dropped,
\* the point stays ("1.", "0.1")
Format9(x) ==
    [neg |-> x < 0, int |-> Abs(x) \div 10,
     frac |-> IF Abs(x) % 10 = 0 THEN <<>> ELSE <<Abs(x) % 10>>]

\* str.lower() of an extinction model name
Lower(s) == IF s = "None" THEN "none" ELSE s

\* 10.**(-magnorm/2.5) of a magnitude norm read from a catalog
FluxTable(m) ==
    CASE m = 18 -> 63095734
      [] m = 19 -> 25118864
      [] m = 20 -> 10000000
      [] m = 22 -> 1584893
      [] OTHER -> 0

\* a / b rounded to the nearest unit
RoundDiv(a, b) == (a \div b) + (IF 2 * (a % b) >= b THEN 1 ELSE 0)

\* line 165: 0.5*(1 - tanh(log(size/1.5))), which is 9 / (9 + 4 size^2), as
\* numerator and denominator
Smooth(size) == [num |-> 9, den |-> 9 + 4 * size * size]

\* lines 160-168: knots_flux_ratio*total_flux after the scaling
KnotsFlux(flux_disk, flux_knots, size) ==
    RoundDiv(flux_knots * Smooth(size).num, Smooth(size).den)

\* a disk that keeps the whole flux
DiskFlux_KeepsTotal(flux_disk, flux_knots, size) == flux_disk + flux_knots

\* lines 160-167: (1-knots_flux_ratio)*total_flux after the scaling
DiskFlux(flux_disk, flux_knots, size) ==
    RoundDiv((flux_disk + flux_knots) * Smooth(size).den - flux_knots * Smooth(size).num,
             Smooth(size).den)

\* the flux 10.**(-m/2.5) of a magnitude norm of the model
Flux(magnorm) ==
    CASE magnorm.kind = "raw" -> FluxTable(magnorm.md)
      [] magnorm.kind = "disk_split" ->
            DiskFlux(FluxTable(magnorm.md), FluxTable(magnorm.mk), magnorm.size)
      [] magnorm.kind = "knots_split" ->
            KnotsFlux(FluxTable(magnorm.md), FluxTable(magnorm.mk), magnorm.size)

ExtKinds == {"none", "good", "bad"}

ExtTokens(k) ==
    CASE k = "none" -> [ext |-> "none", av |-> Token(0), rv |-> Token(0)]
      [] k = "good" -> [ext |-> "CCM", av |-> Token(5), rv |-> Token(31)]
      [] k = "bad"  -> [ext |-> "CCM", av |-> Token(500), rv |-> Token(-50)]

\* magnitude norm and size of the disk and of the knots of a host galaxy
HostDisk(h) == IF h = 1 THEN [magnorm |-> 18, size |-> 2] ELSE [magnorm |-> 20, size |-> 1]

HostKnots(h) == IF h = 1 THEN [magnorm |-> 22, size |-> 2] ELSE [magnorm |-> 19, size |-> 1]

DiskRow(h, k) ==
    [id |-> h * 1024 + DiskSubId, magnorm |-> RawMag(HostDisk(h).magnorm),
     size |-> HostDisk(h).size,
     ext |-> ExtTokens(k).ext, av |-> ExtTokens(k).av, rv |-> ExtTokens(k).rv]

KnotsRow(h) ==
    [id |-> h * 1024 + KnotsSubId, magnorm |-> RawMag(HostKnots(h).magnorm),
     size |-> HostKnots(h).size,
     ext |-> "CCM", av |-> Token(5), rv |-> Token(31)]

DiskRows == {DiskRow(h, k) : h \in Hosts, k \in ExtKinds}

KnotsRows == {KnotsRow(h) : h \in Hosts}

SeqsUpTo(S, n) == UNION {[1..k -> S] : k \in 0..n}

NoRow ==
    [id |-> -1, magnorm |-> RawMag(0), size |-> 0, ext |-> "none",
     av |-> Token(0), rv |-> Token(0)]

\* apply_extinction_correction(tokens): <<corrected, tokens>>
apply_extinction_correction(tokens) ==
    LET internal_av == IF Lower(tokens.ext) # "none" THEN Float(tokens.av) ELSE 0
        internal_rv == IF Lower(tokens.ext) # "none" THEN Float(tokens.rv) ELSE 0
        corrected == \/ internal_rv < RvFloor
                     \/ (internal_rv < RvStaged /\ internal_av > AvMax)
        new_rv == IF internal_rv < RvFloor THEN RvFloor ELSE internal_rv
        new_av == IF internal_rv < RvStaged THEN Clip(internal_av, 0, AvMax)
                  ELSE IF internal_av < 0 THEN 0 ELSE internal_av
    IN  [corrected |-> corrected,
         tokens |-> IF corrected
                    THEN [tokens EXCEPT !.av = Format9(new_av), !.rv = Format9(new_rv)]
                    ELSE tokens]

\* the test of line 146 that ends the inner scan
IdsMatch(id_disk, id_knots) == id_disk = id_knots

\* lines 135-151: the inner loop over input_disk, from generator position p
RECURSIVE ScanDisk(_, _, _)
ScanDisk(disk, p, id_knots) ==
    IF p >= Len(disk)
    THEN [found |-> FALSE, pos |-> p, skipped |-> <<>>, ncorr |-> 0, tokens_disk |-> NoRow]
    ELSE LET r == apply_extinction_correction(disk[p + 1])
             c == IF r.corrected THEN 1 ELSE 0
         IN  IF IdsMatch(IdKey(disk[p + 1].id), id_knots)
             THEN [found |-> TRUE, pos |-> p + 1, skipped |-> <<>>, ncorr |-> c,
                   tokens_disk |-> r.tokens]
             ELSE LET rest == ScanDisk(disk, p + 1, id_knots)
                  IN  [rest EXCEPT !.skipped = <<r.tokens>> \o @, !.ncorr = @ + c]

\* a knots entry that keeps its own extinction parameters
UpdateKnots_OwnExtinction(tokens_disk, tokens_knots) ==
    [tokens_knots EXCEPT
        !.magnorm = KnotsSplit(tokens_disk.magnorm, tokens_knots.magnorm, tokens_disk.size)]

\* lines 168-175: the knots entry of a matched pair, with the split
\* magnitude norm and the extinction parameters of the disk entry
UpdateKnots(tokens_disk, tokens_knots) ==
    [tokens_knots EXCEPT
        !.magnorm = KnotsSplit(tokens_disk.magnorm, tokens_knots.magnorm, tokens_disk.size),
        !.av = tokens_disk.av, !.rv = tokens_disk.rv]

NewTask ==
    [st |-> "queued", knots_pos |-> 0, disk_pos |-> 0,
     output_disk |-> <<>>, output_knots |-> <<>>,
     count_extinction |-> 0, count_line |-> 0, error |-> FALSE]

InitFix ==
    /\ in_disk \in SeqsUpTo(DiskRows, MaxDisk)
    /\ in_knots \in SeqsUpTo(KnotsRows, MaxKnots)
    /\ filenames \in 0..MaxCats
    /\ task = [t \in 1..filenames |-> NewTask]
    /\ main = "map"
    /\ GalIdle /\ WRIdle /\ SNIdle /\ LCIdle /\ ExtIdle /\ OpenIdle /\ CatIdle /\ WGIdle

\* a Pool worker takes the task and calls process_instance_catalog, which
\* reaches its call of fix_disk_knots (lines 206-259)
StartTask(t) ==
    /\ main = "map"
    /\ task[t].st = "queued"
    /\ task' = [task EXCEPT ![t].st = "running"]
    /\ UNCHANGED <<in_disk, in_knots, filenames, main>>
    /\ UNCHANGED notFixVars

\* one iteration of the loop over input_knots (lines 127-181)
KnotsIteration(t) ==
    /\ task[t].st = "running"
    /\ task[t].knots_pos < Len(in_knots)
    /\ LET tk == task[t]
           tokens_knots == in_knots[tk.knots_pos + 1]
           id_knots == IdKey(tokens_knots.id)
           scan == ScanDisk(in_disk, tk.disk_pos, id_knots)
           tokens_disk == scan.tokens_disk
           size == tokens_disk.size
           new_disk == [tokens_disk EXCEPT
                          !.magnorm = DiskSplit(tokens_disk.magnorm, tokens_knots.magnorm, size)]
           new_knots == UpdateKnots(tokens_disk, tokens_knots)
           scanned == [tk EXCEPT !.knots_pos = @ + 1,
                                 !.disk_pos = scan.pos,
                                 !.output_disk = @ \o scan.skipped,
                                 !.count_extinction = @ + scan.ncorr,
                                 !.count_line = @ + (scan.pos - tk.disk_pos)]
       IN  IF ~scan.found
           THEN \* lines 153-155: print the error, exit(-1)
                task' = [task EXCEPT ![t] = [scanned EXCEPT !.st = "died", !.error = TRUE]]
           ELSE task' = [task EXCEPT ![t] =
                            [scanned EXCEPT !.output_disk = Append(@, new_disk),
                                            !.output_knots = Append(@, new_knots)]]
    /\ UNCHANGED <<in_disk, in_knots, filenames, main>>
    /\ UNCHANGED notFixVars

\* input_knots is exhausted: the with block closes the files and
\* fix_disk_knots returns (line 183)
FixReturn(t) ==
    /\ task[t].st = "running"
    /\ task[t].knots_pos = Len(in_knots)
    /\ task' = [task EXCEPT ![t].st = "fixed"]
    /\ UNCHANGED <<in_disk, in_knots, filenames, main>>
    /\ UNCHANGED notFixVars

\* the rest of process_instance_catalog (lines 260-269); the Pool worker
\* hands the result of the task back to map
FinishCatalog(t) ==
    /\ task[t].st = "fixed"
    /\ task' = [task EXCEPT ![t].st = "done"]
    /\ UNCHANGED <<in_disk, in_knots, filenames, main>>
    /\ UNCHANGED notFixVars

\* p.map returns once every task has delivered its result; the script ends
MapReturn ==
    /\ main = "map"
    /\ \A t \in 1..filenames : task[t].st = "done"
    /\ main' = "exit0"
    /\ UNCHANGED <<in_disk, in_knots, filenames, task>>
    /\ UNCHANGED notFixVars

NextFix ==
    \/ \E t \in 1..filenames : StartTask(t)
    \/ \E t \in 1..filenames : KnotsIteration(t)
    \/ \E t \in 1..filenames : FixReturn(t)
    \/ \E t \in 1..filenames : FinishCatalog(t)
    \/ MapReturn

SpecFix == InitFix /\ [][NextFix]_vars

(***************************************************************************)
(* apply_extinction_correction on arbitrary tokens                         *)
(***************************************************************************)
\* tokens[17]
ExtNames == {"none", "None", "CCM"}

\* float(tokens[18]), in tenths
AvInputs == {-20, -1, 0, 5, 10, 11, 500}

\* float(tokens[19]), in tenths
RvInputs == {-50, -1, 0, 1, 5, 9, 10, 31}

InitExt ==
    /\ \E e \in ExtNames, a \in AvInputs, r \in RvInputs :
          ext_tokens = [ext |-> e, av |-> Token(a), rv |-> Token(r)]
    /\ ext_result = <<>>
    /\ ext_pc = "call"
    /\ FixIdle /\ GalIdle /\ WRIdle /\ SNIdle /\ LCIdle /\ OpenIdle /\ CatIdle /\ WGIdle

CallExtinctionCorrection ==
    /\ ext_pc = "call"
    /\ ext_result' = apply_extinction_correction(ext_tokens)
    /\ ext_pc' = "done"
    /\ UNCHANGED ext_tokens
    /\ UNCHANGED notExtVars

NextExt == CallExtinctionCorrection

SpecExt == InitExt /\ [][NextExt]_vars

(***************************************************************************)
(* instance_crawler.py: fopen and fopen_generator                          *)
(*                                                                         *)
(* A path is the sequence of its directory and its file name.  A line of a *)
(* catalog is an object line or an `includeobj <name>` line.               *)
(***************************************************************************)
MaxLines == 2

ObjectLine(n) == [kind |-> "object", id |-> n]

IncludeLine(name) == [kind |-> "includeobj", name |-> name]

\* the catalog that fopen is called on, a catalog it names and a catalog
\* that one names
CatPath == <<"top", "cat.txt">>

IncPath == <<"top", "inc.txt">>

DeepPath == <<"top", "deep.txt">>

CatLines == {ObjectLine(1), ObjectLine(2), IncludeLine("inc.txt")}

IncLines == {ObjectLine(3), IncludeLine("deep.txt")}

\* line 26: os.path.split(os.path.abspath(filename))[0]
DirOf(path) == SubSeq(path, 1, Len(path) - 1)

InitOpen ==
    /\ \E cat \in SeqsUpTo(CatLines, MaxLines), inc \in SeqsUpTo(IncLines, MaxLines) :
          fo_files = (CatPath :> cat) @@ (IncPath :> inc) @@ (DeepPath :> <<ObjectLine(9)>>)
    /\ fo_pos = 0
    /\ fo_yielded = <<>>
    /\ fo_pc = "iterating"
    /\ FixIdle /\ GalIdle /\ WRIdle /\ SNIdle /\ LCIdle /\ ExtIdle /\ CatIdle /\ WGIdle

\* lines 42-44: the generator yields the next line of fd
FoYield ==
    /\ fo_pc = "iterating"
    /\ fo_pos < Len(fo_files[CatPath])
    /\ fo_yielded' = Append(fo_yielded, fo_files[CatPath][fo_pos + 1])
    /\ fo_pos' = fo_pos + 1
    /\ UNCHANGED <<fo_files, fo_pc>>
    /\ UNCHANGED notOpenVars

\* lines 33-34 and 42: fd is exhausted, the with blocks close it
FoClose ==
    /\ fo_pc = "iterating"
    /\ fo_pos = Len(fo_files[CatPath])
    /\ fo_pc' = "closed"
    /\ UNCHANGED <<fo_files, fo_pos, fo_yielded>>
    /\ UNCHANGED notOpenVars

NextOpen ==
    \/ FoYield
    \/ FoClose

SpecOpen == InitOpen /\ [][NextOpen]_vars

(***************************************************************************)
(* InstanceCatalogWriter.py: InstanceCatalogWriter.write_catalog           *)
(*                                                                         *)
(* A line of a status file is the sequence of its characters; the visit is *)
(* obsHistID 1 and every duration prints as 1.000e-01.  One writer object  *)
(* serves the calls of write_catalog one after the other.                  *)
(***************************************************************************)
MaxCalls == 2

\* line 249
object_types == <<"stars", "knots", "bulges", "disks", "sprinkled", "hosts", "sne", "agn">>

ObjectTypeSet == {object_types[i] : i \in 1..Len(object_types)}

\* the completion message write_catalog appends to the status file for a type
Message(ty) ==
    CASE ty = "stars" ->
        <<"1", " ", "w", "r", "o", "t", "e", " ", "s", "t", "a", "r", " ",
          "c", "a", "t", "a", "l", "o", "g", " ", "a", "f", "t", "e", "r",
          " ", "1", ".", "0", "0", "0", "e", "-", "0", "1", " ", "h", "r",
          "s">>
      [] ty = "knots" ->
        <<"1", " ", "w", "r", "o", "t", "e", " ", "k", "n", "o", "t", "s",
          " ", "c", "a", "t", "a", "l", "o", "g", " ", "a", "f", "t", "e",
          "r", " ", "1", ".", "0", "0", "0", "e", "-", "0", "1", " ", "h",
          "r", "s">>
      [] ty = "bulges" ->
        <<"1", " ", "w", "r", "o", "t", "e", " ", "b", "u", "l", "g", "e",
          " ", "c", "a", "t", "a", "l", "o", "g", " ", "a", "f", "t", "e",
          "r", " ", "1", ".", "0", "0", "0", "e", "-", "0", "1", " ", "h",
          "r", "s">>
      [] ty = "disks" ->
        <<"1", " ", "w", "r", "o", "t", "e", " ", "d", "i", "s", "k", " ",
          "c", "a", "t", "a", "l", "o", "g", " ", "a", "f", "t", "e", "r",
          " ", "1", ".", "0", "0", "0", "e", "-", "0", "1", " ", "h", "r",
          "s">>
      [] ty = "sprinkled" ->
        <<"1", " ", "w", "r", "o", "t", "e", " ", "g", "a", "l", "a", "x",
          "y", " ", "c", "a", "t", "a", "l", "o", "g", "s", " ", "w", "i",
          "t", "h", " ", "s", "p", "r", "i", "n", "k", "l", "i", "n", "g",
          " ", "a", "f", "t", "e", "r", " ", "1", ".", "0", "0", "0", "e",
          "-", "0", "1", " ", "h", "r", "s">>
      [] ty = "hosts" ->
        <<"1", " ", "w", "r", "o", "t", "e", " ", "l", "e", "n", "s", "i",
          "n", "g", " ", "h", "o", "s", "t", " ", "c", "a", "t", "a", "l",
          "o", "g", " ", "a", "f", "t", "e", "r", " ", "1", ".", "0", "0",
          "0", "e", "-", "0", "1", " ", "h", "r", "s">>
      [] ty = "sne" ->
        <<"1", " ", "w", "r", "o", "t", "e", " ", "S", "N", "e", " ", "c",
          "a", "t", "a", "l", "o", "g", " ", "a", "f", "t", "e", "r", " ",
          "1", ".", "0", "0", "0", "e", "-", "0", "1", " ", "h", "r", "s">>
      [] ty = "agn" ->
        <<"1", " ", "w", "r", "o", "t", "e", " ", "a", "g", "n", " ", "c",
          "a", "t", "a", "l", "o", "g", " ", "a", "f", "t", "e", "r", " ",
          "1", ".", "0", "0", "0", "e", "-", "0", "1", " ", "h", "r", "s">>

\* the text the pickup scan looks for to find a type completed (lines 297-311)
Pattern(ty) ==
    CASE ty = "stars" ->
        <<"w", "r", "o", "t", "e", " ", "s", "t", "a", "r">>
      [] ty = "knots" ->
        <<"w", "r", "o", "t", "e", " ", "k", "n", "o", "t">>
      [] ty = "bulges" ->
        <<"w", "r", "o", "t", "e", " ", "b", "u", "l", "g", "e">>
      [] ty = "disks" ->
        <<"w", "r", "o", "t", "e", " ", "d", "i", "s", "k">>
      [] ty = "sprinkled" ->
        <<"w", "r", "o", "t", "e", " ", "g", "a", "l", "a", "x", "y", " ",
          "c", "a", "t", "a", "l", "o", "g", "s", " ", "w", "i", "t", "h",
          " ", "s", "p", "r", "i", "n", "k", "l", "i", "n", "g">>
      [] ty = "hosts" ->
        <<"w", "r", "o", "t", "e", " ", "l", "e", "n", "s", "i", "n", "g",
          " ", "h", "o", "s", "t">>
      [] ty = "sne" ->
        <<"w", "r", "o", "t", "e", " ", "S", "N", "e">>
      [] ty = "agn" ->
        <<"w", "r", "o", "t", "e", " ", "a", "g", "n">>

\* line 327: the first line of a status file
HeaderLine ==
        <<"w", "r", "i", "t", "i", "n", "g", " ", "1">>

\* pat in line, for two strings
Contains(line, pat) ==
    \E i \in 0..(Len(line) - Len(pat)) : SubSeq(line, i + 1, i + Len(pat)) = pat

\* the arguments objects_to_skip a writer may be made with
SkipSets == {{}, {"stars"}, {"sne"}}

\* the types whose completion an aborted run may have logged
DoneSets == {{}} \cup {{ty} : ty \in ObjectTypeSet}

\* the status file an earlier run left behind after it completed the types of S
LogOf(S) ==
    LET Lines(ty) == IF ty \in S THEN <<Message(ty)>> ELSE <<>>
    IN  <<HeaderLine>> \o Concat([i \in 1..Len(object_types) |-> Lines(object_types[i])])

\* pickup_file is None
NoPickup == <<>>

PickupFiles == {NoPickup} \cup {LogOf(S) : S \in DoneSets}

\* the arguments status_dir (given or None) and skip_tarball of a call; the
\* caller passes the same ones for every visit
CallArgs == [status_dir : BOOLEAN, skip_tarball : BOOLEAN]

InitCat ==
    /\ \E skip \in SkipSets, spr \in BOOLEAN, kn \in BOOLEAN, sn \in BOOLEAN :
          /\ wc_config = [objects_to_skip |-> skip, sprinkler |-> spr,
                          knots_in_catalog |-> kn, has_sn_db |-> sn]
          /\ wc_do_obj_type = [ty \in ObjectTypeSet |-> ty \notin skip]
    /\ wc_pickups \in UNION {[1..n -> PickupFiles] : n \in 1..MaxCalls}
    /\ \E args \in CallArgs : wc_args = [c \in 1..Len(wc_pickups) |-> args]
    /\ wc_call = 1
    /\ wc_pc = "scan"
    /\ wc_generated = <<>>
    /\ wc_status = <<>>
    /\ wc_written = <<>>
    /\ wc_header = <<>>
    /\ wc_procs = <<>>
    /\ wc_p = "unbound"
    /\ FixIdle /\ GalIdle /\ WRIdle /\ SNIdle /\ LCIdle /\ ExtIdle /\ OpenIdle /\ WGIdle

\* lines 296-312: the types a pickup file switches off
ScannedOff(file) ==
    {ty \in ObjectTypeSet : \E l \in 1..Len(file) : Contains(file[l], Pattern(ty))}

\* lines 317-324: has_status_file of the current call
has_status_file == wc_args[wc_call].status_dir

\* lines 294-312: read the pickup file
WcScan ==
    /\ wc_pc = "scan"
    /\ wc_do_obj_type' = [ty \in ObjectTypeSet |->
                             IF ty \in ScannedOff(wc_pickups[wc_call]) THEN FALSE
                             ELSE wc_do_obj_type[ty]]
    /\ wc_pc' = "generate"
    /\ UNCHANGED <<wc_config, wc_pickups, wc_call, wc_generated, wc_status,
                   wc_args, wc_written, wc_header, wc_procs, wc_p>>
    /\ UNCHANGED notCatVars

\* lines 366-585: the condition under which the catalog of a type is written
Generates(ty) ==
    /\ wc_do_obj_type[ty]
    /\ CASE ty = "knots" -> wc_config.knots_in_catalog
          [] ty \in {"bulges", "disks", "agn"} -> wc_config.sprinkler = FALSE
          [] ty \in {"sprinkled", "hosts"} -> wc_config.sprinkler # FALSE
          [] ty = "sne" -> wc_config.has_sn_db
          [] OTHER -> TRUE

\* the order in which write_catalog reaches the types (lines 366-585)
WriteOrder == <<"stars", "knots", "bulges", "disks", "agn", "sprinkled", "hosts", "sne">>

\* lines 355-364, 383-579: what writing the catalog of a type appends to
\* written_catalog_names
CatalogNames(ty) ==
    CASE ty = "stars" -> <<"star_cat">>
      [] ty = "knots" -> <<"knots_cat">>
      [] ty = "bulges" -> <<"bulge_gal_cat">>
      [] ty = "disks" -> <<"disk_gal_cat">>
      [] ty = "agn" -> <<"agn_gal_cat">>
      [] ty = "sprinkled" -> <<"bulge_gal_cat", "disk_gal_cat", "agn_gal_cat">>
      [] ty = "hosts" -> <<"spr_hosts">>
      [] ty = "sne" -> <<"sne_cat">>

\* lines 672-674: make_instcat_header writes `includeobj <name>.gz` for
\* every name of object_catalogs
make_instcat_header(object_catalogs) ==
    [i \in 1..Len(object_catalogs) |-> IncludeLine(<<object_catalogs[i], "gz">>)]

\* lines 326-589: write the catalogs, the status file and the phosim_cat
\* header
WcGenerate ==
    /\ wc_pc = "generate"
    /\ LET Lines(ty) == IF Generates(ty) THEN <<Message(ty)>> ELSE <<>>
           Names(ty) == IF Generates(ty) THEN CatalogNames(ty) ELSE <<>>
           written_catalog_names == Concat([i \in 1..Len(WriteOrder) |-> Names(WriteOrder[i])])
       IN  /\ wc_generated' = Append(wc_generated, {ty \in ObjectTypeSet : Generates(ty)})
           /\ wc_status' = Append(wc_status,
                                  IF has_status_file
                                  THEN <<HeaderLine>>
                                       \o Concat([i \in 1..Len(WriteOrder) |-> Lines(WriteOrder[i])])
                                  ELSE <<>>)
           /\ wc_written' = written_catalog_names
           /\ wc_header' = Append(wc_header, make_instcat_header(written_catalog_names))
    /\ wc_procs' = Append(wc_procs, <<>>)
    /\ wc_p' = "unbound"
    /\ wc_pc' = "gzip"
    /\ UNCHANGED <<wc_config, wc_do_obj_type, wc_pickups, wc_call, wc_args>>
    /\ UNCHANGED notCatVars

\* a subprocess of write_catalog is started; p.wait() returned for it
Started(proc) == [proc |-> proc, ev |-> "start"]

Exited(proc) == [proc |-> proc, ev |-> "exit"]

\* lines 600-615: gzip the object files; p is left bound to the last gzip
\* process, or unbound when no catalog was written
WcGzip ==
    /\ wc_pc = "gzip"
    /\ wc_procs' = [wc_procs EXCEPT ![wc_call] =
                      @ \o Concat([i \in 1..Len(wc_written) |->
                                     <<Started("gzip"), Exited("gzip")>>])]
    /\ wc_p' = IF wc_written = <<>> THEN "unbound" ELSE "gzip"
    /\ wc_pc' = "tarball"
    /\ UNCHANGED <<wc_config, wc_do_obj_type, wc_pickups, wc_call, wc_generated, wc_status,
                   wc_args, wc_written, wc_header>>
    /\ UNCHANGED notCatVars

\* line 620: the line the status file gets before the tarball is made
TarringLine == <<"1", " ", "t", "a", "r", "r", "i", "n", "g">>

\* lines 617-626: make the tarball and remove the output directory
WcTarball ==
    /\ wc_pc = "tarball"
    /\ IF wc_args[wc_call].skip_tarball
       THEN /\ wc_pc' = "finish"
            /\ UNCHANGED <<wc_status, wc_procs, wc_p>>
       ELSE LET p == IF has_status_file THEN "tar" ELSE wc_p
                tar == IF has_status_file THEN <<Started("tar")>> ELSE <<>>
            IN  /\ wc_status' = IF has_status_file
                                THEN [wc_status EXCEPT ![wc_call] = Append(@, TarringLine)]
                                ELSE wc_status
                /\ IF p = "unbound"
                   THEN \* p.wait() raises UnboundLocalError
                        /\ wc_pc' = "raised"
                        /\ wc_p' = p
                        /\ wc_procs' = wc_procs
                   ELSE /\ wc_pc' = "finish"
                        /\ wc_p' = "rm"
                        /\ wc_procs' = [wc_procs EXCEPT ![wc_call] =
                                          @ \o tar
                                            \o (IF p = "tar" THEN <<Exited("tar")>> ELSE <<>>)
                                            \o <<Started("rm"), Exited("rm")>>]
    /\ UNCHANGED <<wc_config, wc_do_obj_type, wc_pickups, wc_call, wc_generated,
                   wc_args, wc_written, wc_header>>
    /\ UNCHANGED notCatVars

\* line 631: the last line of the status file
AllDoneLine == <<"1", " ", "a", "l", "l", " ", "d", "o", "n", "e">>

\* lines 628-637: the last status line and the return; the caller goes on
\* to the next visit with the same writer
WcReturn ==
    /\ wc_pc = "finish"
    /\ wc_status' = IF has_status_file
                    THEN [wc_status EXCEPT ![wc_call] = Append(@, AllDoneLine)]
                    ELSE wc_status
    /\ IF wc_call < Len(wc_pickups)
       THEN wc_call' = wc_call + 1 /\ wc_pc' = "scan"
       ELSE wc_call' = wc_call /\ wc_pc' = "done"
    /\ UNCHANGED <<wc_config, wc_do_obj_type, wc_pickups, wc_generated,
                   wc_args, wc_written, wc_header, wc_procs, wc_p>>
    /\ UNCHANGED notCatVars

NextCat ==
    \/ WcScan
    \/ WcGenerate
    \/ WcGzip
    \/ WcTarball
    \/ WcReturn

SpecCat == InitCat /\ [][NextCat]_vars

(***************************************************************************)
(* GalaxyTruthModule.py                                                    *)
(*                                                                         *)
(* A dict is the sequence of its items [k, v] in insertion order, which is *)
(* the order keys() iterates in; assigning to a key that is present keeps  *)
(* its place.                                                              *)
(***************************************************************************)
DictHas(d, k) == \E i \in 1..Len(d) : d[i].k = k

DictGet(d, k) == d[CHOOSE i \in 1..Len(d) : d[i].k = k].v

DictSet(d, k, v) ==
    IF DictHas(d, k)
    THEN [i \in 1..Len(d) |-> IF d[i].k = k THEN [k |-> k, v |-> v] ELSE d[i]]
    ELSE Append(d, [k |-> k, v |-> v])

MaxGal == 5
MaxProcs == 2
chunk_size == 2

\* process ids the operating system hands out
Pids == {11, 12, 13}

Bands == 0..5

\* what the photometry of a galaxy comes to: its magnification fails the
\* assertions of lines 248-249, or its total flux is not positive in the
\* bands of nan (lines 288-291)
GalKinds == {"ok", "bad_magnification", "nan_all"}

Galaxy(gid, kind) == [galaxy_id |-> gid, kind |-> kind]

GalInputs ==
    UNION {[1..n -> GalKinds] : n \in 0..MaxGal}

\* lines 287-290: the bands in which tot_fluxes is not positive, which keep
\* the NaN that out_mags starts with
NanBands(kind) ==
    CASE kind = "nan_all" -> Bands
      [] kind = "nan_r" -> {2}
      [] OTHER -> {}

\* lines 243-249: the assertions on the magnification pass
MagnificationOk(galaxy_list) ==
    \A i \in 1..Len(galaxy_list) : galaxy_list[i].kind # "bad_magnification"

\* lines 251-303: out_mags of calculate_mags, one row per galaxy; of records
\* the galaxy the row was computed from
OutMags(galaxy_list) ==
    [i \in 1..Len(galaxy_list) |->
        [of |-> galaxy_list[i].galaxy_id, nan |-> NanBands(galaxy_list[i].kind)]]

\* lines 383-398: local_dict of write_galaxies_to_truth
LocalDict(results) ==
    [i \in 1..Len(results) |-> results[i].galaxy_id]

\* line 204: np.isnan(mm[i_obj][0])
IsNanFirstBand(m) == 0 \in m.nan

\* lines 189-207: the rows one chunk inserts into truth
ChunkRows(mm, pp) ==
    LET F[i \in 0..Len(pp)] ==
            IF i = 0 THEN <<>>
            ELSE IF IsNanFirstBand(mm.mags[i]) THEN F[i - 1]
                 ELSE Append(F[i - 1], [galaxy_id |-> pp[i], mag |-> mm.mags[i]])
    IN  F[Len(pp)]

\* lines 181-208: the loop of write_results from the i-th key of mag_dict on;
\* acc holds the truth table, row_ct and whether an exception was raised
RECURSIVE WriteLoop(_, _, _, _)
WriteLoop(md, pd, i, acc) ==
    IF i > Len(md) THEN acc
    ELSE LET k == md[i].k
             mm == md[i].v
         IN  IF ~DictHas(pd, k) THEN [acc EXCEPT !.raised = TRUE]
             ELSE LET pp == DictGet(pd, k)
                      counted == [acc EXCEPT !.row_ct = @ + Len(pp)]
                  IN  IF Len(mm.mags) # Len(pp) THEN [counted EXCEPT !.raised = TRUE]
                      ELSE WriteLoop(md, pd, i + 1,
                                     [counted EXCEPT !.truth = @ \o ChunkRows(mm, pp)])

\* the order in which write_results walks the chunks (line 181)
ChunkOrder(md) == md

\* write_results in one transaction over the whole table: an exception
\* undoes every row
write_results_OneTransaction(md, pd, t) ==
    LET r == IF Len(md) # Len(pd)
             THEN [truth |-> t, row_ct |-> 0, raised |-> TRUE]
             ELSE WriteLoop(ChunkOrder(md), pd, 1,
                            [truth |-> t, row_ct |-> 0, raised |-> FALSE])
    IN  IF r.raised THEN [r EXCEPT !.truth = <<>>] ELSE r

\* write_results without the assertion of line 178
write_results_NoCountAssert(md, pd, t) ==
    WriteLoop(ChunkOrder(md), pd, 1, [truth |-> t, row_ct |-> 0, raised |-> FALSE])

\* write_results(conn, cursor, mag_dict, position_dict) on a truth table t
write_results(md, pd, t) ==
    IF Len(md) # Len(pd)
    THEN [truth |-> t, row_ct |-> 0, raised |-> TRUE]
    ELSE WriteLoop(ChunkOrder(md), pd, 1, [truth |-> t, row_ct |-> 0, raised |-> FALSE])

Finished(w) == w.st \in {"stored", "failed"}

\* the process ids of children that have not been waited for
HeldPids == {workers[i].pid : i \in {j \in 1..Len(workers) : ~workers[j].reaped}}

\* Process.start() polls the children that have finished (and so waits for
\* them) before it forks
Cleanup(ws) ==
    [i \in 1..Len(ws) |-> IF Finished(ws[i]) THEN [ws[i] EXCEPT !.reaped = TRUE] ELSE ws[i]]

\* the process ids fork may return to a start() that follows Cleanup
FreePids(ws) == Pids \ {ws[i].pid : i \in {j \in 1..Len(ws) : ~ws[j].reaped}}

InitGal ==
    /\ \E kinds \in GalInputs :
         gal_input = [i \in 1..Len(kinds) |-> Galaxy(100 + i, kinds[i])]
    /\ n_procs \in 1..MaxProcs
    /\ gal_pc = "fetch"
    /\ fetched = 0
    /\ workers = <<>>
    /\ p_list = <<>>
    /\ n_joined = 0
    /\ mag_dict = <<>>
    /\ position_dict = <<>>
    /\ truth = <<>>
    /\ row_ct = 0
    /\ iteration = 0
    /\ passed = <<>>
    /\ FixIdle /\ WRIdle /\ SNIdle /\ LCIdle /\ ExtIdle /\ OpenIdle /\ CatIdle /\ WGIdle

\* query.fetchmany(chunk_size) at cursor position n
FetchMany(n) == SubSeq(gal_input, n + 1, Min(n + chunk_size, Len(gal_input)))

\* a wave that is started one process too late
WaveFull_OffByOne(pl) == Len(pl) > n_procs

\* line 402: the wave is full
WaveFull(pl) == Len(pl) >= n_procs

\* lines 374-402: fetch a chunk, start its process, record its positions
FetchAndStart ==
    /\ gal_pc = "fetch"
    /\ LET results == FetchMany(fetched)
           reaped == Cleanup(workers)
       IN  /\ Len(results) > 0
           /\ \E pid \in FreePids(reaped) :
                /\ workers' = Append(reaped,
                                [pid |-> pid, galaxy_list |-> results, st |-> "running",
                                 reaped |-> FALSE, joined |-> FALSE, wave |-> iteration])
                /\ position_dict' = DictSet(position_dict, pid, LocalDict(results))
           /\ fetched' = fetched + Len(results)
           /\ p_list' = Append(p_list, Len(workers) + 1)
           /\ gal_pc' = IF WaveFull(p_list') THEN "join" ELSE "fetch"
    /\ UNCHANGED <<gal_input, n_procs, n_joined, mag_dict, truth, row_ct, iteration, passed>>
    /\ UNCHANGED notGalVars

\* lines 374-376, 416: the fetch returns no row and the loop ends
FetchEmpty ==
    /\ gal_pc = "fetch"
    /\ Len(FetchMany(fetched)) = 0
    /\ gal_pc' = IF Len(p_list) > 0 THEN "final_join" ELSE "returned"
    /\ UNCHANGED <<gal_input, n_procs, fetched, workers, p_list, n_joined, mag_dict,
                   position_dict, truth, row_ct, iteration, passed>>
    /\ UNCHANGED notGalVars

\* calculate_mags in the process workers[w]
WorkerFinish(w) ==
    /\ workers[w].st = "running"
    /\ IF MagnificationOk(workers[w].galaxy_list)
       THEN /\ workers' = [workers EXCEPT ![w].st = "stored"]
            /\ mag_dict' = IF workers[w].wave = iteration
                           THEN DictSet(mag_dict, workers[w].pid,
                                        [w |-> w, mags |-> OutMags(workers[w].galaxy_list)])
                           ELSE mag_dict
       ELSE /\ workers' = [workers EXCEPT ![w].st = "failed"]
            /\ mag_dict' = mag_dict
    /\ UNCHANGED <<gal_input, n_procs, gal_pc, fetched, p_list, n_joined,
                   position_dict, truth, row_ct, iteration, passed>>
    /\ UNCHANGED notGalVars

\* lines 403-404 and 417-418: p.join() of the next process of p_list
JoinNext ==
    /\ gal_pc \in {"join", "final_join"}
    /\ n_joined < Len(p_list)
    /\ Finished(workers[p_list[n_joined + 1]])
    /\ workers' = [workers EXCEPT ![p_list[n_joined + 1]].joined = TRUE,
                                  ![p_list[n_joined + 1]].reaped = TRUE]
    /\ n_joined' = n_joined + 1
    /\ UNCHANGED <<gal_input, n_procs, gal_pc, fetched, p_list, mag_dict,
                   position_dict, truth, row_ct, iteration, passed>>
    /\ UNCHANGED notGalVars

PassedNow == [i \in 1..Len(mag_dict) |-> mag_dict[i].v.w]

\* lines 405-414: write the wave and start over
WriteWave ==
    /\ gal_pc = "join"
    /\ n_joined = Len(p_list)
    /\ LET r == write_results(mag_dict, position_dict, truth)
       IN  /\ truth' = r.truth
           /\ passed' = passed \o PassedNow
           /\ IF r.raised
              THEN /\ gal_pc' = "raised"
                   /\ UNCHANGED <<p_list, position_dict, mag_dict, iteration, row_ct, n_joined>>
              ELSE /\ gal_pc' = "fetch"
                   /\ row_ct' = row_ct + r.row_ct
                   /\ p_list' = <<>>
                   /\ position_dict' = <<>>
                   /\ mag_dict' = <<>>
                   /\ iteration' = iteration + 1
                   /\ n_joined' = 0
    /\ UNCHANGED <<gal_input, n_procs, fetched, workers>>
    /\ UNCHANGED notGalVars

\* lines 416-420: write the last wave
WriteFinal ==
    /\ gal_pc = "final_join"
    /\ n_joined = Len(p_list)
    /\ LET r == write_results(mag_dict, position_dict, truth)
       IN  /\ truth' = r.truth
           /\ passed' = passed \o PassedNow
           /\ gal_pc' = IF r.raised THEN "raised" ELSE "returned"
    /\ UNCHANGED <<gal_input, n_procs, fetched, workers, p_list, n_joined, mag_dict,
                   position_dict, row_ct, iteration>>
    /\ UNCHANGED notGalVars

NextGal ==
    \/ FetchAndStart
    \/ FetchEmpty
    \/ \E w \in 1..Len(workers) : WorkerFinish(w)
    \/ JoinNext
    \/ WriteWave
    \/ WriteFinal

SpecGal == InitGal /\ [][NextGal]_vars

(***************************************************************************)
(* write_results on arbitrary arguments                                    *)
(***************************************************************************)
MaxWRRows == 2

WRKeys == {11, 12}

\* what the first row of a chunk of magnitudes holds
WRNanChoices == {"ok", "nan_all", "nan_r"}

\* the galaxy_id of the i-th position record of the chunk with key k
WRGid(k, i) == k * 10 + i

\* a chunk of mag_dict: n rows, the first of them of kind c
WRMags(k, n, c) ==
    [w |-> k, mags |-> [i \in 1..n |-> [of |-> WRGid(k, i),
                                        nan |-> IF i = 1 THEN NanBands(c) ELSE {}]]]

\* a chunk of position_dict: n position records
WRPos(k, n) == [i \in 1..n |-> WRGid(k, i)]

\* the orders in which the keys of S can have been inserted
KeyOrders(S) ==
    {o \in UNION {[1..n -> S] : n \in 0..Cardinality(S)} :
        \A i, j \in 1..Len(o) : i # j => o[i] # o[j]}

\* a row that an earlier wave committed
EarlierRow == [galaxy_id |-> 1, mag |-> [of |-> 1, nan |-> {}]]

InitWR ==
    /\ \E mo \in KeyOrders(WRKeys), po \in KeyOrders(WRKeys),
          mlen \in [WRKeys -> 0..MaxWRRows], plen \in [WRKeys -> 0..MaxWRRows],
          c \in [WRKeys -> WRNanChoices] :
         /\ \A i, j \in 1..Len(po) : i < j => po[i] < po[j]
         /\ wr_md = [i \in 1..Len(mo) |-> [k |-> mo[i], v |-> WRMags(mo[i], mlen[mo[i]], c[mo[i]])]]
         /\ wr_pd = [i \in 1..Len(po) |-> [k |-> po[i], v |-> WRPos(po[i], plen[po[i]])]]
    /\ wr_t0 \in {<<>>, <<EarlierRow>>}
    /\ wr_res = <<>>
    /\ wr_pc = "call"
    /\ FixIdle /\ GalIdle /\ SNIdle /\ LCIdle /\ ExtIdle /\ OpenIdle /\ CatIdle /\ WGIdle

CallWriteResults ==
    /\ wr_pc = "call"
    /\ wr_res' = write_results(wr_md, wr_pd, wr_t0)
    /\ wr_pc' = "done"
    /\ UNCHANGED <<wr_md, wr_pd, wr_t0>>
    /\ UNCHANGED notWRVars

NextWR == CallWriteResults

SpecWR == InitWR /\ [][NextWR]_vars

(***************************************************************************)
(* GalaxyTruthModule.py: the arguments of write_galaxies_to_truth          *)
(*                                                                         *)
(* A path is a string; two paths may name one file ("in.db" and            *)
(* "./in.db").  The file system is the set of the files that exist.        *)
(***************************************************************************)
\* the values input_db and output may take; "None" stands for None
PathArgs == {"None", "in.db", "./in.db", "out.db"}

\* the file a path names
FileOf(path) == IF path = "out.db" THEN "out" ELSE "in"

\* os.path.isfile(path)
isfile(path, files) == FileOf(path) \in files

InitWG ==
    /\ wg_input_db \in PathArgs
    /\ wg_output \in PathArgs
    /\ wg_clobber \in BOOLEAN
    /\ wg_files0 \in SUBSET {"in", "out"}
    /\ wg_files = wg_files0
    /\ wg_pc = "check_arguments"
    /\ FixIdle /\ GalIdle /\ WRIdle /\ SNIdle /\ LCIdle /\ ExtIdle /\ OpenIdle /\ CatIdle

\* lines 337-344: the checks that need no file
WgCheckArguments ==
    /\ wg_pc = "check_arguments"
    /\ wg_pc' = IF \/ wg_input_db = "None"
                   \/ wg_output = "None"
                   \/ wg_output = wg_input_db
                THEN "raised" ELSE "clobber"
    /\ UNCHANGED <<wg_input_db, wg_output, wg_clobber, wg_files0, wg_files>>
    /\ UNCHANGED notWGVars

\* lines 346-348: an output file that exists is deleted if clobber is set
WgClobber ==
    /\ wg_pc = "clobber"
    /\ wg_files' = IF isfile(wg_output, wg_files) /\ wg_clobber
                   THEN wg_files \ {FileOf(wg_output)}
                   ELSE wg_files
    /\ wg_pc' = "check_input"
    /\ UNCHANGED <<wg_input_db, wg_output, wg_clobber, wg_files0>>
    /\ UNCHANGED notWGVars

\* lines 350-351: the input database must exist
WgCheckInput ==
    /\ wg_pc = "check_input"
    /\ wg_pc' = IF ~isfile(wg_input_db, wg_files) THEN "raised" ELSE "connect"
    /\ UNCHANGED <<wg_input_db, wg_output, wg_clobber, wg_files0, wg_files>>
    /\ UNCHANGED notWGVars

\* line 365: sqlite3.connect(output) creates the output file if there is
\* none; the loop over the input follows (InitGal)
WgConnect ==
    /\ wg_pc = "connect"
    /\ wg_files' = wg_files \cup {FileOf(wg_output)}
    /\ wg_pc' = "fetch"
    /\ UNCHANGED <<wg_input_db, wg_output, wg_clobber, wg_files0>>
    /\ UNCHANGED notWGVars

NextWG ==
    \/ WgCheckArguments
    \/ WgClobber
    \/ WgCheckInput
    \/ WgConnect

SpecWG == InitWG /\ [][NextWG]_vars

(***************************************************************************)
(* TruthCatalogLC.py: SneSimulator.calculate_sn_magnitudes                 *)
(*                                                                         *)
(* sn_truth_params[i] is Param(i).  A matrix of magnitudes is the sequence *)
(* of its rows; a row records the parameter string it was computed from    *)
(* (0 for a row that still holds the initial NaN) and its number of        *)
(* columns.                                                                *)
(***************************************************************************)
MaxSN == 38
NEpochs == 2
n_threads == 12
MinBatch == 12

Param(i) == 1000 + i

\* a batch size that divides by the number of threads
d_sne_PerThread(n) == Max(MinBatch, n \div n_threads)

\* line 88
d_sne(n) == Max(MinBatch, n \div (n_threads - 1))

\* sn_truth_params[selection] for selection = slice(i_start, i_start + d_sne)
SliceLen(n, i_start) == Max(0, Min(i_start + d_sne(n), n) - i_start)

\* lines 57-74: the matrix a batch stores, one row per object of the batch
BatchMags(i_start, cnt) ==
    [i \in 1..cnt |-> [of |-> Param(i_start + i), cols |-> NEpochs]]

\* line 106
NanMatrix(n) == [i \in 1..n |-> [of |-> 0, cols |-> NEpochs]]

\* line 110: mags[selection] = value
AssignSlice(mags, i_start, value) ==
    [i \in 1..Len(mags) |->
        IF i > i_start /\ i <= i_start + Len(value) THEN value[i - i_start] ELSE mags[i]]

\* a collection that takes the batches in the order they were stored in
Collect_ByCompletion(n, out, i_start, mags) ==
    LET all == Concat([i \in 1..Len(out) |-> out[i].v])
    IN  [raised |-> Len(all) # n, mags |-> all]

\* lines 107-110: the loop that fills mags from out_dict, from i_start on
RECURSIVE Collect(_, _, _, _)
Collect(n, out, i_start, mags) ==
    IF i_start >= n THEN [raised |-> FALSE, mags |-> mags]
    ELSE IF ~DictHas(out, i_start) THEN [raised |-> TRUE, mags |-> mags]
    ELSE Collect(n, out, i_start + d_sne(n), AssignSlice(mags, i_start, DictGet(out, i_start)))

\* line 98: the tag handed to the process of the batch that starts at i_start
BatchTag(i_start) == i_start

InitSN ==
    /\ sn_n \in 0..MaxSN
    /\ sn_bad \in {0, 1, sn_n}
    /\ sn_pc = "launch"
    /\ sn_i_start = 0
    /\ sn_p_list = <<>>
    /\ sn_n_joined = 0
    /\ sn_out_dict = <<>>
    /\ sn_mags = <<>>
    /\ FixIdle /\ GalIdle /\ WRIdle /\ LCIdle /\ ExtIdle /\ OpenIdle /\ CatIdle /\ WGIdle

\* lines 92-101: one iteration of the launch loop
SnLaunch ==
    /\ sn_pc = "launch"
    /\ sn_i_start < sn_n
    /\ sn_p_list' = Append(sn_p_list,
                           [tag |-> BatchTag(sn_i_start), lo |-> sn_i_start,
                            cnt |-> SliceLen(sn_n, sn_i_start), st |-> "running"])
    /\ sn_i_start' = sn_i_start + d_sne(sn_n)
    /\ UNCHANGED <<sn_n, sn_bad, sn_pc, sn_n_joined, sn_out_dict, sn_mags>>
    /\ UNCHANGED notSNVars

\* the range of line 92 is exhausted
SnLaunchEnd ==
    /\ sn_pc = "launch"
    /\ sn_i_start >= sn_n
    /\ sn_pc' = "join"
    /\ UNCHANGED <<sn_n, sn_bad, sn_i_start, sn_p_list, sn_n_joined, sn_out_dict, sn_mags>>
    /\ UNCHANGED notSNVars

\* _calculate_batch_of_sn in process w: it stores its matrix under its tag,
\* or raises on a parameter string before it stores anything
SnWorkerFinish(w) ==
    /\ sn_p_list[w].st = "running"
    /\ IF sn_bad > sn_p_list[w].lo /\ sn_bad <= sn_p_list[w].lo + sn_p_list[w].cnt
       THEN /\ sn_p_list' = [sn_p_list EXCEPT ![w].st = "failed"]
            /\ sn_out_dict' = sn_out_dict
       ELSE /\ sn_p_list' = [sn_p_list EXCEPT ![w].st = "stored"]
            /\ sn_out_dict' = DictSet(sn_out_dict, sn_p_list[w].tag,
                                      BatchMags(sn_p_list[w].lo, sn_p_list[w].cnt))
    /\ UNCHANGED <<sn_n, sn_bad, sn_pc, sn_i_start, sn_n_joined, sn_mags>>
    /\ UNCHANGED notSNVars

\* lines 103-104: p.join() of the next process
SnJoin ==
    /\ sn_pc = "join"
    /\ sn_n_joined < Len(sn_p_list)
    /\ sn_p_list[sn_n_joined + 1].st \in {"stored", "failed"}
    /\ sn_n_joined' = sn_n_joined + 1
    /\ UNCHANGED <<sn_n, sn_bad, sn_pc, sn_i_start, sn_p_list, sn_out_dict, sn_mags>>
    /\ UNCHANGED notSNVars

\* lines 106-112: assemble mags and return it
SnCollect ==
    /\ sn_pc = "join"
    /\ sn_n_joined = Len(sn_p_list)
    /\ LET r == Collect(sn_n, sn_out_dict, 0, NanMatrix(sn_n))
       IN  /\ sn_mags' = r.mags
           /\ sn_pc' = IF r.raised THEN "raised" ELSE "returned"
    /\ UNCHANGED <<sn_n, sn_bad, sn_i_start, sn_p_list, sn_n_joined, sn_out_dict>>
    /\ UNCHANGED notSNVars

NextSN ==
    \/ SnLaunch
    \/ SnLaunchEnd
    \/ \E w \in 1..Len(sn_p_list) : SnWorkerFinish(w)
    \/ SnJoin
    \/ SnCollect

SpecSN == InitSN /\ [][NextSN]_vars

(***************************************************************************)
(* calculate_sn_magnitudes on long inputs.  The number of the processes,   *)
(* the sizes of their batches and the order of launch, join and read do    *)
(* not depend on the order in which the processes finish, which SpecSN     *)
(* explores; here the processes finish in the order they were started.     *)
(***************************************************************************)
MaxBatchN == 150

InitSNBatches ==
    /\ sn_n \in 0..MaxBatchN
    /\ sn_bad \in {0, 1}
    /\ sn_pc = "launch"
    /\ sn_i_start = 0
    /\ sn_p_list = <<>>
    /\ sn_n_joined = 0
    /\ sn_out_dict = <<>>
    /\ sn_mags = <<>>
    /\ FixIdle /\ GalIdle /\ WRIdle /\ LCIdle /\ ExtIdle /\ OpenIdle /\ CatIdle /\ WGIdle

\* the process started first among those that still run finishes
SnWorkerFinishInOrder ==
    \E w \in 1..Len(sn_p_list) :
        /\ \A v \in 1..(w - 1) : sn_p_list[v].st # "running"
        /\ SnWorkerFinish(w)

NextSNBatches ==
    \/ SnLaunch
    \/ SnLaunchEnd
    \/ SnWorkerFinishInOrder
    \/ SnJoin
    \/ SnCollect

SpecSNBatches == InitSNBatches /\ [][NextSNBatches]_vars

(***************************************************************************)
(* TruthCatalogLC.py: write_sprinkled_lc                                   *)
(*                                                                         *)
(* An object is a row of zpoint: uniqueId, htmid (its trixel), is_agn,     *)
(* is_sn, on_chip, which stands for its position (the pointings on whose   *)
(* detectors _actually_on_chip finds it), and maxtime, which stands for    *)
(* sn_truth_params (the last date at which the supernova has a flux).  A   *)
(* pointing carries its obshistid, mjd, filter and the htmid bounds of     *)
(* htmid_dict.  The chunks of a trixel (chunk_size 10000) are walked in    *)
(* order, so the rows of a trixel are those of the concatenation of its    *)
(* chunks.  A magnitude is "finite" or "nan" and records the date and the  *)
(* filter it was computed for.                                             *)
(***************************************************************************)
MaxObj == 2

Trixels == {1, 2, 3}

ObjTypes == {"agn", "sn", "static"}

\* where an object lies: on a detector of pointing 2 only, or of every pointing
ChipSets == {{2}, {1, 2, 3}}

\* SNObject.maxtime() of a supernova; mintime() is 0
MaxTimes == {15, 40}

ObjKinds ==
    {k \in [htmid : Trixels, type : ObjTypes, on_chip : ChipSets, maxtime : MaxTimes] :
        /\ k.type # "sn" => k.maxtime = 40
        /\ k.type = "static" => k.on_chip = {1, 2, 3}}

Object(uid, kd) ==
    [uniqueId |-> uid, htmid |-> kd.htmid,
     is_agn |-> IF kd.type = "agn" THEN 1 ELSE 0,
     is_sn |-> IF kd.type = "sn" THEN 1 ELSE 0,
     on_chip |-> kd.on_chip, maxtime |-> kd.maxtime]

\* the pointings a run may be given; no pointing overlaps trixel 3
PointingCatalog ==
    <<[obshistid |-> 1, mjd |-> 30, filter |-> 2, bounds |-> <<<<1, 1>>>>],
      [obshistid |-> 2, mjd |-> 10, filter |-> 1, bounds |-> <<<<2, 2>>, <<1, 1>>>>],
      [obshistid |-> 3, mjd |-> 20, filter |-> 0, bounds |-> <<<<2, 2>>>>]>>

\* the subsequence of s at the indices of I
RECURSIVE Pick(_, _, _)
Pick(s, I, i) ==
    IF i > Len(s) THEN <<>>
    ELSE (IF i \in I THEN <<s[i]>> ELSE <<>>) \o Pick(s, I, i + 1)

\* line 288: SELECT DISTINCT htmid FROM zpoint WHERE is_agn=1 OR is_sn=1
RECURSIVE Ascending(_)
Ascending(S) ==
    IF S = {} THEN <<>>
    ELSE LET m == CHOOSE x \in S : \A y \in S : x <= y IN <<m>> \o Ascending(S \ {m})

object_htmid ==
    Ascending({lc_objects[i].htmid :
                  i \in {j \in 1..Len(lc_objects) :
                            lc_objects[j].is_agn = 1 \/ lc_objects[j].is_sn = 1}})

\* lines 338-342: the pointing overlaps the trixel
IsContained(htmid, pointing) ==
    \E b \in 1..Len(pointing.bounds) :
        htmid <= pointing.bounds[b][2] /\ htmid >= pointing.bounds[b][1]

\* lines 337-346: the pointings that overlap the trixel, in dict order
Overlapping(htmid) ==
    LET Hit(pt) == IsContained(htmid, pt) IN SelectSeq(lc_pointings, Hit)

\* lines 332-346: mjd_arr, obs_arr and filter_arr before they are sorted
EpochArrays(htmid) ==
    LET over == Overlapping(htmid)
    IN  [mjd_arr |-> [i \in 1..Len(over) |-> over[i].mjd],
         obs_arr |-> [i \in 1..Len(over) |-> over[i].obshistid],
         filter_arr |-> [i \in 1..Len(over) |-> over[i].filter]]

\* an order that leaves the dates as they are
ArgSorts_Unsorted(a) == {[i \in 1..Len(a) |-> i]}

\* line 352: np.argsort(mjd_arr), any of the index orders that sort a
ArgSorts(a) ==
    {p \in [1..Len(a) -> 1..Len(a)] :
        /\ \A i, j \in 1..Len(a) : i # j => p[i] # p[j]
        /\ \A i \in 1..(Len(a) - 1) : a[p[i]] <= a[p[i + 1]]}

\* a[sorted_dex]
Take(a, sorted_dex) == [i \in 1..Len(sorted_dex) |-> a[sorted_dex[i]]]

\* lines 353-355: the three arrays indexed by sorted_dex
SortEpochs(ep, sorted_dex) ==
    [mjd_arr |-> Take(ep.mjd_arr, sorted_dex),
     obs_arr |-> Take(ep.obs_arr, sorted_dex),
     filter_arr |-> Take(ep.filter_arr, sorted_dex)]

\* lines 357-361: the AGN of the trixel
AgnOf(htmid) ==
    LET T(o) == o.is_agn = 1 /\ o.htmid = htmid IN SelectSeq(lc_objects, T)

\* lines 420-424: the supernovae of the trixel
SnOf(htmid) ==
    LET T(o) == o.is_sn = 1 /\ o.htmid = htmid IN SelectSeq(lc_objects, T)

\* lines 366-375 and 431-440: the rows of static data
VtRows(objs, agn, sn) ==
    [i \in 1..Len(objs) |-> [uniqueId |-> objs[i].uniqueId, agn |-> agn, sn |-> sn]]

\* _actually_on_chip for one object and the obs_md of the pointing obshistid
actually_on_chip(o, obshistid) == obshistid \in o.on_chip

\* lines 392-393 and 411-412: quiescent_mag + dmag of an AGN at epoch i_time
AgnMag(o, ep, i_time) ==
    [kind |-> "finite", mjd |-> ep.mjd_arr[i_time], filter |-> ep.filter_arr[i_time]]

\* sn_mags[i_obj][i_time]: NaN outside the time window of the supernova
\* (lines 57-72 of _calculate_batch_of_sn)
SnMag(o, ep, i_time) ==
    [kind |-> IF ep.mjd_arr[i_time] < 0 \/ ep.mjd_arr[i_time] > o.maxtime
              THEN "nan" ELSE "finite",
     mjd |-> ep.mjd_arr[i_time], filter |-> ep.filter_arr[i_time]]

\* lines 400-404: valid_agn
AgnValid(o, ep, i_time) == actually_on_chip(o, ep.obs_arr[i_time])

\* a selection that tests the detector only
SnValid_ChipOnly(o, ep, i_time) == actually_on_chip(o, ep.obs_arr[i_time])

\* lines 452-457: valid_obj
SnValid(o, ep, i_time) ==
    /\ SnMag(o, ep, i_time).kind = "finite"
    /\ actually_on_chip(o, ep.obs_arr[i_time])

\* lines 397-415: the photometry rows of the AGN objs, pointing by pointing
RECURSIVE AgnLcRows(_, _, _)
AgnLcRows(objs, ep, i_time) ==
    IF i_time > Len(ep.obs_arr) THEN <<>>
    ELSE LET Valid(o) == AgnValid(o, ep, i_time)
             valid == SelectSeq(objs, Valid)
         IN  [i \in 1..Len(valid) |->
                 [uniqueId |-> valid[i].uniqueId, obshistid |-> ep.obs_arr[i_time],
                  mag |-> AgnMag(valid[i], ep, i_time)]]
             \o AgnLcRows(objs, ep, i_time + 1)

\* lines 449-469: the photometry rows of the supernovae objs
RECURSIVE SnLcRows(_, _, _)
SnLcRows(objs, ep, i_time) ==
    IF i_time > Len(ep.obs_arr) THEN <<>>
    ELSE LET Valid(o) == SnValid(o, ep, i_time)
             valid == SelectSeq(objs, Valid)
         IN  [i \in 1..Len(valid) |->
                 [uniqueId |-> valid[i].uniqueId, obshistid |-> ep.obs_arr[i_time],
                  mag |-> SnMag(valid[i], ep, i_time)]]
             \o SnLcRows(objs, ep, i_time + 1)

\* lines 278-279: the index of obs_metadata
ObsFilterIndex ==
    [name |-> "obs_filter", table |-> "obs_metadata",
     cols |-> <<"obshistid", "filter">>, unique |-> FALSE]

\* line 471: CREATE INDEX unq_obs ON light_curves (uniqueId, obshistid)
UnqObsIndex ==
    [name |-> "unq_obs", table |-> "light_curves",
     cols |-> <<"uniqueId", "obshistid">>, unique |-> FALSE]

\* the uniqueId column of zpoint: one value per row, or the same value twice
IdColumns(n) == {[i \in 1..n |-> i], [i \in 1..n |-> 1]}

InitLC ==
    /\ \E kinds \in SeqsUpTo(ObjKinds, MaxObj) :
         \E ids \in IdColumns(Len(kinds)) :
            lc_objects = [i \in 1..Len(kinds) |-> Object(ids[i], kinds[i])]
    /\ \E I \in SUBSET (1..Len(PointingCatalog)) :
         lc_pointings = Pick(PointingCatalog, I, 1)
    /\ lc_pc = "loop"
    /\ lc_htmid_dex = 0
    /\ lc_vt = <<>>
    /\ lc_light_curves = <<>>
    /\ lc_indexes = {ObsFilterIndex}
    /\ lc_n_floats = 0
    /\ lc_epochs = <<>>
    /\ FixIdle /\ GalIdle /\ WRIdle /\ SNIdle /\ ExtIdle /\ OpenIdle /\ CatIdle /\ WGIdle

\* lines 326-348: no pointing overlaps the trixel
LcSkipTrixel ==
    /\ lc_pc = "loop"
    /\ lc_htmid_dex < Len(object_htmid)
    /\ Overlapping(object_htmid[lc_htmid_dex + 1]) = <<>>
    /\ lc_htmid_dex' = lc_htmid_dex + 1
    /\ UNCHANGED <<lc_objects, lc_pointings, lc_pc, lc_vt, lc_light_curves,
                   lc_indexes, lc_n_floats, lc_epochs>>
    /\ UNCHANGED notLCVars

\* lines 326-469: one trixel with pointings
LcProcessTrixel ==
    /\ lc_pc = "loop"
    /\ lc_htmid_dex < Len(object_htmid)
    /\ LET htmid == object_htmid[lc_htmid_dex + 1]
           unsorted == EpochArrays(htmid)
       IN  /\ Len(unsorted.mjd_arr) # 0
           /\ \E sorted_dex \in ArgSorts(unsorted.mjd_arr) :
                LET ep == SortEpochs(unsorted, sorted_dex)
                    agn == AgnOf(htmid)
                    sn == SnOf(htmid)
                    agn_rows == AgnLcRows(agn, ep, 1)
                    sn_rows == SnLcRows(sn, ep, 1)
                IN  /\ lc_vt' = lc_vt \o VtRows(agn, 1, 0) \o VtRows(sn, 0, 1)
                    /\ lc_light_curves' = lc_light_curves \o agn_rows \o sn_rows
                    /\ lc_n_floats' = lc_n_floats
                                      + (IF agn = <<>> THEN 0
                                         ELSE 6 * Len(agn) * Len(ep.mjd_arr))
                                      + Len(sn_rows)
                    /\ lc_epochs' = Append(lc_epochs, [htmid |-> htmid, ep |-> ep])
    /\ lc_htmid_dex' = lc_htmid_dex + 1
    /\ UNCHANGED <<lc_objects, lc_pointings, lc_pc, lc_indexes>>
    /\ UNCHANGED notLCVars

\* lines 471-475: the loop is over; create the index and return
LcFinish ==
    /\ lc_pc = "loop"
    /\ lc_htmid_dex = Len(object_htmid)
    /\ lc_indexes' = lc_indexes \cup {UnqObsIndex}
    /\ lc_pc' = "done"
    /\ UNCHANGED <<lc_objects, lc_pointings, lc_htmid_dex, lc_vt, lc_light_curves,
                   lc_n_floats, lc_epochs>>
    /\ UNCHANGED notLCVars

NextLC ==
    \/ LcSkipTrixel
    \/ LcProcessTrixel
    \/ LcFinish

SpecLC == InitLC /\ [][NextLC]_vars

(***************************************************************************)
(* Claims about instance_crawler.py (checked under SpecFix)                *)
(***************************************************************************)
FixCompleted(t) == task[t].st \in {"fixed", "done"}

RowIds(rows) == [i \in 1..Len(rows) |-> rows[i].id]

\* C1: whenever fix_disk_knots completes without the fatal identity
\* mismatch, the disk output holds exactly one row per disk input row, in
\* input order, wherever the unmatched disk rows lie.
C1_DiskOutputHasEveryInputRow ==
    \A t \in 1..filenames :
        FixCompleted(t) => RowIds(task[t].output_disk) = RowIds(in_disk)

\* C2: when the forward scan for a knots entry exhausts the disk catalog,
\* no output row is written for that knots entry or a later one, and the
\* program run through its Pool-based entry point ends with a non-zero exit
\* status: it is never left blocked with nothing more to do.
C2_AbortEndsRunNonZero ==
    \A t \in 1..filenames :
        task[t].st = "died" =>
            /\ task[t].error
            /\ Len(task[t].output_knots) = task[t].knots_pos - 1
            /\ (main = "exit_nonzero" \/ ENABLED NextFix)

\* the rows of the disk output that were written for a matched pair
SplitDiskRows(t) ==
    LET S(row) == row.magnorm.kind = "disk_split" IN SelectSeq(task[t].output_disk, S)

\* the host galaxy of a row
HostOf(row) == IdKey(row.id)

\* C19: for every matched pair written by fix_disk_knots, the total flux
\* of the two magnitude norms after the split equals the total flux of the
\* two magnitude norms before the split within a relative tolerance of 1e-6.
C19_FluxConserved ==
    \A t \in 1..filenames :
        /\ Len(SplitDiskRows(t)) = Len(task[t].output_knots)
        /\ \A k \in 1..Len(task[t].output_knots) :
              LET disk == SplitDiskRows(t)[k]
                  knots == task[t].output_knots[k]
                  before == FluxTable(HostDisk(HostOf(disk)).magnorm)
                            + FluxTable(in_knots[k].magnorm.md)
                  after == Flux(disk.magnorm) + Flux(knots.magnorm)
              IN  /\ HostOf(disk) = HostOf(knots)
                  /\ knots.id = in_knots[k].id
                  /\ Abs(after - before) <= before \div 1000000

\* a pair was split, and both parts kept some flux
C19_Witness ==
    \E t \in 1..filenames :
        /\ Len(task[t].output_knots) = 2
        /\ HostOf(task[t].output_knots[1]) # HostOf(task[t].output_knots[2])
        /\ \A k \in 1..2 :
              /\ Flux(task[t].output_knots[k].magnorm) > 0
              /\ Flux(task[t].output_knots[k].magnorm) < FluxTable(in_knots[k].magnorm.md)
              /\ Flux(SplitDiskRows(t)[k].magnorm) > 0

\* what one step of a task does to the scan of the disk catalog
C21_ScanStep(t) ==
    LET tk == task[t]
        tk2 == task'[t]
    IN  /\ tk2.disk_pos >= tk.disk_pos
        /\ tk2.count_line - tk.count_line = tk2.disk_pos - tk.disk_pos
        /\ (tk2.knots_pos = tk.knots_pos + 1 /\ tk2.st # "died") =>
              /\ tk2.disk_pos > tk.disk_pos
              /\ IdKey(in_disk[tk2.disk_pos].id) = IdKey(in_knots[tk2.knots_pos].id)
              /\ \A p \in (tk.disk_pos + 1)..(tk2.disk_pos - 1) :
                    IdKey(in_disk[p].id) # IdKey(in_knots[tk2.knots_pos].id)

\* C21: a knots entry is matched to the first disk entry at or after the
\* scan position that has its identity key (id >> 10); the scan position
\* never moves backward, so no two knots entries are matched to the same
\* disk row; and every disk input row is read and handled exactly once by
\* a run that completes.
C21_ForwardScanReadsEveryRowOnce ==
    /\ [][\A t \in 1..filenames : C21_ScanStep(t)]_vars
    /\ [](\A t \in 1..filenames :
             FixCompleted(t) => /\ task[t].count_line = Len(in_disk)
                                /\ task[t].disk_pos = Len(in_disk))

\* C22: on every run of fix_disk_knots that completes, the knots output
\* holds exactly one row per knots input row, in input order; a knots
\* output row is written together with the output row of the disk entry it
\* was matched to (the k-th knots row with the k-th matched disk row) and
\* carries that disk row's columns 18 and 19.
C22_KnotsRowsFollowTheirDisk ==
    \A t \in 1..filenames :
        /\ Len(SplitDiskRows(t)) = Len(task[t].output_knots)
        /\ \A k \in 1..Len(task[t].output_knots) :
              /\ HostOf(SplitDiskRows(t)[k]) = HostOf(task[t].output_knots[k])
              /\ task[t].output_knots[k].av = SplitDiskRows(t)[k].av
              /\ task[t].output_knots[k].rv = SplitDiskRows(t)[k].rv
        /\ FixCompleted(t) => RowIds(task[t].output_knots) = RowIds(in_knots)

\* a completed run with two knots rows that took over extinction
\* parameters other than their own
C22_Witness ==
    \E t \in 1..filenames :
        /\ FixCompleted(t)
        /\ Len(task[t].output_knots) = 2
        /\ \A k \in 1..2 : task[t].output_knots[k].av # in_knots[k].av
        /\ task[t].output_knots[1].id # task[t].output_knots[2].id

(***************************************************************************)
(* Claims about fopen (checked under SpecOpen)                             *)
(***************************************************************************)
\* the lines of the file at path with every includeobj line replaced by the
\* lines of the file it names, looked up in the directory of the file that
\* holds the line
RECURSIVE Expanded(_)
Expanded(path) ==
    LET lines == fo_files[path]
        F[i \in 0..Len(lines)] ==
            IF i = 0 THEN <<>>
            ELSE F[i - 1] \o (IF lines[i].kind = "includeobj"
                              THEN Expanded(Append(DirOf(path), lines[i].name))
                              ELSE <<lines[i]>>)
    IN  F[Len(lines)]

\* C17: iterating the generator that fopen returns yields, for every
\* `includeobj <path>` line, the lines of the included file, found
\* relative to the directory of the including file and expanded
\* recursively, and never the directive line itself.
C17_IncludeobjExpanded ==
    fo_pc = "closed" => fo_yielded = Expanded(CatPath)

(***************************************************************************)
(* Claims about write_catalog (checked under SpecCat)                      *)
(***************************************************************************)
\* the types whose completion message is a line of the pickup file
LoggedDone(file) ==
    {ty \in ObjectTypeSet : \E l \in 1..Len(file) : file[l] = Message(ty)}

\* the types the writer can produce at all, given how it was made
Applicable(ty) ==
    CASE ty = "knots" -> wc_config.knots_in_catalog
      [] ty \in {"bulges", "disks", "agn"} -> wc_config.sprinkler = FALSE
      [] ty \in {"sprinkled", "hosts"} -> wc_config.sprinkler # FALSE
      [] ty = "sne" -> wc_config.has_sn_db
      [] OTHER -> TRUE

\* C20: a call of write_catalog generates exactly the types that are
\* neither in objects_to_skip nor logged as complete in the pickup file of
\* that call; the status file holds the completion message of every type
\* it generated; and the pickup scan takes the completion message of a type
\* for the completion of that type and of no other.
C20_PickupSkipsExactlyLogged ==
    /\ \A c \in 1..Len(wc_generated) :
          /\ \A ty \in ObjectTypeSet :
                Applicable(ty) =>
                    (ty \in wc_generated[c] <=>
                        /\ ty \notin wc_config.objects_to_skip
                        /\ ty \notin LoggedDone(wc_pickups[c]))
          /\ wc_args[c].status_dir => LoggedDone(wc_status[c]) = wc_generated[c]
    /\ \A ty, other \in ObjectTypeSet :
          Contains(Message(ty), Pattern(other)) <=> ty = other

\* the call c of write_catalog has returned
Returned(c) == c < wc_call \/ (c = wc_call /\ wc_pc = "done")

\* C25: a call of write_catalog with skip_tarball False removes the output
\* directory of the visit only after a tar process archiving it has been
\* started and has exited, with or without a status_dir.
C25_RemovedOnlyAfterTar ==
    \A c \in 1..Len(wc_procs) :
        ~wc_args[c].skip_tarball =>
            \A i \in 1..Len(wc_procs[c]) :
                wc_procs[c][i] = Started("rm") =>
                    \E j, k \in 1..(i - 1) :
                        /\ j < k
                        /\ wc_procs[c][j] = Started("tar")
                        /\ wc_procs[c][k] = Exited("tar")

\* C26: after write_catalog has completed for a visit resumed from a pickup
\* file, the phosim_cat header holds an includeobj line for every
\* sub-catalog of the visit, those that the pickup log marks as written and
\* that this call skipped included.
C26_HeaderIncludesEverySubCatalog ==
    \A c \in 1..Len(wc_header) :
        (Returned(c) /\ wc_pickups[c] # NoPickup) =>
            \A ty \in ObjectTypeSet :
                (Applicable(ty) /\ ty \notin wc_config.objects_to_skip) =>
                    \A n \in 1..Len(CatalogNames(ty)) :
                        \E l \in 1..Len(wc_header[c]) :
                            wc_header[c][l] = IncludeLine(<<CatalogNames(ty)[n], "gz">>)

\* C27: the types a call of write_catalog generates depend only on the
\* objects_to_skip of the constructor and on the pickup_file of that call:
\* two calls on one writer with the same pickup file generate the same
\* types, and a call without a pickup file generates every type that the
\* writer can produce and that is not in objects_to_skip, whatever pickup
\* file an earlier call was given.
C27_EarlierPickupHasNoEffect ==
    /\ \A c, d \in 1..Len(wc_generated) :
          wc_pickups[c] = wc_pickups[d] => wc_generated[c] = wc_generated[d]
    /\ \A c \in 1..Len(wc_generated) :
          wc_pickups[c] = NoPickup =>
              wc_generated[c] = {ty \in ObjectTypeSet :
                                   Applicable(ty) /\ ty \notin wc_config.objects_to_skip}

C28_NoneEntryLeftVerbatim ==
    (ext_pc = "done" /\ Lower(ext_tokens.ext) = "none") =>
        /\ ~ext_result.corrected
        /\ ext_result.tokens = ext_tokens

\* C29: apply_extinction_correction changes columns 18 and 19 of an entry
\* if and only if it returns corrected = True and changes no other column;
\* an entry it reports as not corrected has its A_v in [0, 1] if its R_v
\* is below 1 and a non-negative A_v otherwise.
C29_UncorrectedEntryInRange ==
    ext_pc = "done" =>
        /\ ext_result.corrected <=>
              (ext_result.tokens.av # ext_tokens.av \/ ext_result.tokens.rv # ext_tokens.rv)
        /\ ext_result.tokens.ext = ext_tokens.ext
        /\ ~ext_result.corrected =>
              IF Float(ext_result.tokens.rv) < RvStaged
              THEN Float(ext_result.tokens.av) >= 0 /\ Float(ext_result.tokens.av) <= AvMax
              ELSE Float(ext_result.tokens.av) >= 0

(***************************************************************************)
(* Claims about write_galaxies_to_truth (checked under SpecGal)            *)
(***************************************************************************)
Count(seq, x) == Cardinality({i \in 1..Len(seq) : seq[i] = x})

Chunks == [i \in 1..Len(workers) |-> workers[i].galaxy_list]

\* C3: when write_galaxies_to_truth returns, every record of the input
\* cursor lies in exactly one chunk, every chunk went to one worker, and the
\* result of every chunk was passed to write_results exactly once, the
\* chunks of a short final wave included; fetching stopped at the end of
\* the input.
C3_EveryChunkWrittenOnce ==
    gal_pc = "returned" =>
        /\ Concat(Chunks) = gal_input
        /\ fetched = Len(gal_input)
        /\ \A w \in 1..Len(workers) : Count(passed, w) = 1

NotJoined == {i \in 1..Len(workers) : ~workers[i].joined}

\* C4: never more than n_procs processes are started and not yet joined,
\* and every process that is not yet joined belongs to the current wave:
\* the processes of the earlier waves were all joined, and those waves
\* written, before a process of this wave was started.
C4_BoundedSynchronousWaves ==
    /\ Cardinality(NotJoined) <= n_procs
    /\ Len(p_list) <= n_procs
    /\ \A i \in 1..Len(workers) :
          /\ workers[i].wave <= iteration
          /\ workers[i].wave < iteration => workers[i].joined
          /\ ~workers[i].joined => workers[i].wave = iteration /\ Count(p_list, i) = 1

C4_Witness ==
    /\ iteration >= 1
    /\ n_procs = 2
    /\ \E i \in NotJoined : workers[i].wave = iteration /\ workers[i].st = "running"
    /\ \E i \in 1..Len(workers) : workers[i].wave < iteration

\* C5: a run in which a worker process ended without storing its result
\* never returns normally.
C5_FailedWorkerFailsRun ==
    gal_pc = "returned" => \A w \in 1..Len(workers) : workers[w].st # "failed"

\* C7: no two processes of one wave carry the same tag, so no position
\* record and no result of the wave is overwritten by another worker's.
C7_TagsUniqueWithinWave ==
    \A i, j \in 1..Len(workers) :
        (i # j /\ workers[i].wave = workers[j].wave) => workers[i].pid # workers[j].pid

\* C9: the rows of truth are in the order in which their chunks were
\* fetched, whatever the order in which the workers of a wave complete.
C9_InsertionFollowsFetchOrder ==
    \A i, j \in 1..Len(truth) : i < j => truth[i].galaxy_id < truth[j].galaxy_id

\* C14: the rows of truth are committed chunk by chunk: a row that is in the
\* table when write_results has returned for a wave is in it, unchanged,
\* after every later step, a failure of a later wave included.
C14_CommittedRowsKept ==
    [][\A i \in 1..Len(truth) : i <= Len(truth') /\ truth'[i] = truth[i]]_vars

\* a later wave failed after an earlier wave was written
C14_Witness ==
    /\ gal_pc = "raised"
    /\ iteration >= 1
    /\ truth # <<>>

(***************************************************************************)
(* Claims about write_results (checked under SpecWR)                       *)
(***************************************************************************)
\* the rows the call added to the truth table
WRInserted == SubSeq(wr_res.truth, Len(wr_t0) + 1, Len(wr_res.truth))

\* chunk i of mag_dict has a position record of another length
WRChunkMismatch(i) ==
    /\ DictHas(wr_pd, wr_md[i].k)
    /\ Len(wr_md[i].v.mags) # Len(DictGet(wr_pd, wr_md[i].k))

\* C6: write_results raises without inserting anything when the number of
\* result chunks differs from the number of dispatched chunks, and raises
\* without inserting a row of any chunk whose number of magnitude rows
\* differs from its number of position records.
C6_RejectsCardinalityMismatch ==
    wr_pc = "done" =>
        /\ Len(wr_md) # Len(wr_pd) => wr_res.raised /\ wr_res.truth = wr_t0
        /\ \A i \in 1..Len(wr_md) :
              WRChunkMismatch(i) =>
                  /\ wr_res.raised
                  /\ \A r \in 1..Len(WRInserted) :
                        WRInserted[r].galaxy_id \notin Range(DictGet(wr_pd, wr_md[i].k))

C6_Witness ==
    /\ wr_pc = "done"
    /\ Len(wr_md) = 2 /\ Len(wr_pd) = 2
    /\ ~WRChunkMismatch(1) /\ WRChunkMismatch(2)
    /\ Len(wr_md[2].v.mags) > 0 /\ Len(DictGet(wr_pd, wr_md[2].k)) > 0
    /\ wr_res.raised
    /\ Len(WRInserted) > 0

\* C23: for every number n >= 0 of supernovae, calculate_sn_magnitudes
\* launches at most 12 worker processes, every sub-batch holds at most
\* max(12, n // 11) objects, no process is launched for n = 0, and the
\* results are read from the shared dict only after every launched process
\* has been joined.
C23_AtMostTwelveWorkers ==
    /\ Len(sn_p_list) <= 12
    /\ \A w \in 1..Len(sn_p_list) : sn_p_list[w].cnt <= Max(12, sn_n \div 11)
    /\ sn_n = 0 => sn_p_list = <<>>
    /\ (sn_pc \in {"returned", "raised"} \/ sn_mags # <<>>) =>
          /\ sn_i_start >= sn_n
          /\ sn_n_joined = Len(sn_p_list)
          /\ \A w \in 1..Len(sn_p_list) : sn_p_list[w].st # "running"

\* twelve processes with batches of 13 were launched and joined, and the
\* magnitudes were read
C23_Witness ==
    /\ sn_pc = "returned"
    /\ Len(sn_p_list) = 12
    /\ sn_p_list[1].cnt = 13
    /\ Len(sn_mags) = sn_n

\* C30: write_results inserts a truth row for an object if and only if
\* none of its six band magnitudes is NaN; no row that holds a NaN magnitude
\* in any band is inserted into the truth table.
C30_RowIffNoBandIsNan ==
    (wr_pc = "done" /\ ~wr_res.raised) =>
        /\ \A r \in 1..Len(WRInserted) : WRInserted[r].mag.nan = {}
        /\ \A i \in 1..Len(wr_md) :
              \A j \in 1..Len(wr_md[i].v.mags) :
                  wr_md[i].v.mags[j].nan = {} <=>
                      \E r \in 1..Len(WRInserted) :
                          WRInserted[r].galaxy_id = wr_md[i].v.mags[j].of

(***************************************************************************)
(* Claims about the arguments of write_galaxies_to_truth (under SpecWG)    *)
(***************************************************************************)
\* C24: write_galaxies_to_truth raises RuntimeError when input_db is None,
\* output is None, output equals input_db, or input_db does not exist; when
\* it has raised, an output file that existed before the call still exists;
\* and the input database is never deleted.
C24_RaisesBeforeTouchingFiles ==
    /\ wg_pc \in {"raised", "fetch"} =>
          ((\/ wg_input_db = "None"
            \/ wg_output = "None"
            \/ wg_output = wg_input_db
            \/ ~isfile(wg_input_db, wg_files0)) => wg_pc = "raised")
    /\ (wg_pc = "raised" /\ wg_output # "None" /\ isfile(wg_output, wg_files0)) =>
          isfile(wg_output, wg_files)
    /\ (wg_input_db # "None" /\ isfile(wg_input_db, wg_files0)) =>
          isfile(wg_input_db, wg_files)

(***************************************************************************)
(* Claims about calculate_sn_magnitudes (checked under SpecSN)             *)
(***************************************************************************)
SnBatchesOf(i) ==
    {w \in 1..Len(sn_p_list) : sn_p_list[w].lo < i /\ i <= sn_p_list[w].lo + sn_p_list[w].cnt}

RECURSIVE SnSumCnt(_)
SnSumCnt(ps) == IF ps = <<>> THEN 0 ELSE Head(ps).cnt + SnSumCnt(Tail(ps))

\* C8: calculate_sn_magnitudes returns one row per input object and one
\* column per epoch, row i computed from sn_truth_params[i], whatever the
\* order in which the workers finished; the sub-batches cover every object
\* index exactly once and their sizes sum to the number of objects.
C8_RowsInInputOrder ==
    /\ sn_pc \in {"join", "returned", "raised"} =>
          /\ \A i \in 1..sn_n : Cardinality(SnBatchesOf(i)) = 1
          /\ SnSumCnt(sn_p_list) = sn_n
    /\ sn_pc = "returned" =>
          /\ Len(sn_mags) = sn_n
          /\ \A i \in 1..sn_n : sn_mags[i].of = Param(i) /\ sn_mags[i].cols = NEpochs

\* the workers stored their results in another order than they were started
C8_Witness ==
    /\ sn_pc = "returned"
    /\ sn_n > MinBatch
    /\ \E i, j \in 1..Len(sn_out_dict) : i < j /\ sn_out_dict[i].k > sn_out_dict[j].k

(***************************************************************************)
(* Claims about write_sprinkled_lc (checked under SpecLC)                  *)
(***************************************************************************)
\* the uniqueId values of zpoint are unique
UniqueIds ==
    \A i, j \in 1..Len(lc_objects) :
        i # j => lc_objects[i].uniqueId # lc_objects[j].uniqueId

VtCount(uid) == Cardinality({i \in 1..Len(lc_vt) : lc_vt[i].uniqueId = uid})

\* C10: after write_sprinkled_lc completes, every object flagged is_agn=1
\* or is_sn=1 appears exactly once in variables_and_transients.
C10_EveryFlaggedObjectOnce ==
    (lc_pc = "done" /\ UniqueIds) =>
        \A i \in 1..Len(lc_objects) :
            (lc_objects[i].is_agn = 1 \/ lc_objects[i].is_sn = 1)
                => VtCount(lc_objects[i].uniqueId) = 1

\* the rows of light_curves with the pair (uid, obs)
LcPairRows(uid, obs) ==
    {r \in 1..Len(lc_light_curves) :
        lc_light_curves[r].uniqueId = uid /\ lc_light_curves[r].obshistid = obs}

NoDuplicatePair ==
    \A r \in 1..Len(lc_light_curves) :
        Cardinality(LcPairRows(lc_light_curves[r].uniqueId,
                               lc_light_curves[r].obshistid)) = 1

\* C11: a run of write_sprinkled_lc that completes leaves no two rows of
\* light_curves with the same (uniqueId, obshistid) pair: the pairs of an
\* input with unique uniqueId values are distinct, and any other duplicate
\* insertion is caught by a uniqueness index on the pair, which fails the
\* run.
C11_PairUniqueOrDetected ==
    lc_pc = "done" => NoDuplicatePair

\* the pointing of the run with this obshistid
PointingOf(obs) ==
    lc_pointings[CHOOSE p \in 1..Len(lc_pointings) : lc_pointings[p].obshistid = obs]

\* the (supernova, pointing) pairs of the run whose trixel the pointing
\* overlaps and whose object is on a detector, and those of them whose
\* magnitude is NaN
SnPairs ==
    {pr \in (1..Len(lc_objects)) \X (1..Len(lc_pointings)) :
        /\ lc_objects[pr[1]].is_sn = 1
        /\ IsContained(lc_objects[pr[1]].htmid, lc_pointings[pr[2]])
        /\ actually_on_chip(lc_objects[pr[1]], lc_pointings[pr[2]].obshistid)}

SnNanPairs ==
    {pr \in SnPairs : lc_pointings[pr[2]].mjd > lc_objects[pr[1]].maxtime}

AgnFloats ==
    LET Term(i) == IF lc_objects[i].is_agn = 1
                   THEN 6 * Len(Overlapping(lc_objects[i].htmid)) ELSE 0
        F[i \in 0..Len(lc_objects)] == IF i = 0 THEN 0 ELSE F[i - 1] + Term(i)
    IN  F[Len(lc_objects)]

\* C12: a NaN magnitude of a supernova on a detector never aborts the run
\* and is not dropped: when the run is over its object-epoch pair is
\* recorded in light_curves and is counted in n_floats.
C12_NanRecordedAndCounted ==
    (lc_pc = "done" /\ UniqueIds) =>
        /\ \A pr \in SnNanPairs :
              LcPairRows(lc_objects[pr[1]].uniqueId, lc_pointings[pr[2]].obshistid) # {}
        /\ lc_n_floats = AgnFloats + Cardinality(SnPairs)

\* C13: every row of light_curves belongs to an (object, pointing) pair for
\* which _actually_on_chip reports the object on a detector and, for a
\* supernova, the magnitude of the epoch is finite; no row holds NaN.
C13_RowsOnlyForValidPairs ==
    UniqueIds =>
        \A r \in 1..Len(lc_light_curves) :
            LET row == lc_light_curves[r]
            IN  /\ row.mag.kind = "finite"
                /\ \E i \in 1..Len(lc_objects) :
                      /\ lc_objects[i].uniqueId = row.uniqueId
                      /\ lc_objects[i].is_agn = 1 \/ lc_objects[i].is_sn = 1
                      /\ actually_on_chip(lc_objects[i], row.obshistid)
                      /\ lc_objects[i].is_sn = 1 =>
                            PointingOf(row.obshistid).mjd <= lc_objects[i].maxtime

\* a finished run that dropped a pair off the detectors and a pair with a
\* NaN magnitude, and wrote a row for another pair
C13_Witness ==
    /\ lc_pc = "done" /\ UniqueIds
    /\ lc_light_curves # <<>>
    /\ SnNanPairs # {}
    /\ \E i \in 1..Len(lc_objects) : \E p \in 1..Len(lc_pointings) :
          /\ lc_objects[i].is_sn = 1 \/ lc_objects[i].is_agn = 1
          /\ IsContained(lc_objects[i].htmid, lc_pointings[p])
          /\ ~actually_on_chip(lc_objects[i], lc_pointings[p].obshistid)
          /\ LcPairRows(lc_objects[i].uniqueId, lc_pointings[p].obshistid) = {}

LightCurveIndexes == {ix \in lc_indexes : ix.table = "light_curves"}

\* C15: write_sprinkled_lc creates no index on light_curves before the
\* rows of the last region are inserted, and has created an index on
\* (uniqueId) and an index on (uniqueId, obshistid) when it is done.
C15_IndexesAfterBulkLoad ==
    /\ lc_pc = "loop" => LightCurveIndexes = {}
    /\ lc_pc = "done" =>
          /\ \E ix \in LightCurveIndexes : ix.cols = <<"uniqueId">>
          /\ \E ix \in LightCurveIndexes : ix.cols = <<"uniqueId", "obshistid">>

\* C16: for every trixel processed, mjd_arr is in non-decreasing order and
\* index i of mjd_arr, obs_arr and filter_arr refers to one pointing that
\* overlaps the trixel; every overlapping pointing is in the arrays once.
C16_EpochsSortedAndAligned ==
    \A t \in 1..Len(lc_epochs) :
        LET ep == lc_epochs[t].ep
            n == Len(ep.mjd_arr)
        IN  /\ Len(ep.obs_arr) = n /\ Len(ep.filter_arr) = n
            /\ n = Len(Overlapping(lc_epochs[t].htmid))
            /\ \A i \in 1..(n - 1) : ep.mjd_arr[i] <= ep.mjd_arr[i + 1]
            /\ \A i, j \in 1..n : i # j => ep.obs_arr[i] # ep.obs_arr[j]
            /\ \A i \in 1..n :
                  \E p \in 1..Len(lc_pointings) :
                     /\ IsContained(lc_epochs[t].htmid, lc_pointings[p])
                     /\ lc_pointings[p].obshistid = ep.obs_arr[i]
                     /\ lc_pointings[p].mjd = ep.mjd_arr[i]
                     /\ lc_pointings[p].filter = ep.filter_arr[i]

\* a trixel whose pointings htmid_dict holds in another order than by date
C16_Witness ==
    \E t \in 1..Len(lc_epochs) :
        /\ Len(lc_epochs[t].ep.mjd_arr) >= 2
        /\ EpochArrays(lc_epochs[t].htmid).mjd_arr # lc_epochs[t].ep.mjd_arr

====
